---- MODULE Spec2Model ----
(***************************************************************************)
(* Model of the mytoml TOML parser (src/src/mytoml.c,                      *)
(* src/include/mytoml/mytoml.h): the key model with its redefinition       *)
(* rules, the structural parsers (key paths, table headers, array-of-table *)
(* headers, key-value statements, inline tables), the drivers             *)
(* toml_load_file_name and toml_loads, the lookup toml_get_key, the        *)
(* release toml_free, the scanning loops that fill the fixed buffers, and  *)
(* the tokenizer over a concrete buffer.                                   *)
(*                                                                         *)
(* Key nodes live in a heap; a pointer is an index into the heap and NULL  *)
(* is 0.  A document is produced lazily: every driver iteration consumes   *)
(* one statement and the environment chooses the class of the byte that    *)
(* follows it.  The tokenizer is kept at the granularity of byte classes.  *)
(***************************************************************************)
EXTENDS Integers, Sequences, FiniteSets, TLC

VARIABLES
  heap,     \* Seq of TomlKey records; index = address
  key,      \* the driver's `key`: address of the current table
  tok,      \* Tokenizer: token, prev (byte classes), newline, is_null
  pc,       \* "parsing" | "done" | "failed" | "freed" (load) ; "unit" (direct calls)
  nstmts,   \* statements parsed so far
  last,     \* record of the last statement: what was parsed and what it returned
  hdrs,     \* paths that were the terminal of a successful [path] header
  onlyhdr,  \* TRUE while every statement so far was a [path] header
  locked,   \* inline-table nodes of the statements parsed so far, with their entries
  cur,      \* lookup cursor: result of the last toml_get_key call chain
  lpath,    \* identifiers passed to toml_get_key so far, starting at root
  input,    \* how the document was given (file or string) and whether it is empty
  released, \* what was handed back to the allocator: key nodes, the tokenizer
  scan,     \* a bounded-buffer scanning loop: which one, bytes stored, outcome
  ctok,     \* the tokenizer over a concrete byte stream, with the last call made
  unit      \* one parsing or printing routine run on its own over a small text

vars == <<heap, key, tok, pc, nstmts, last, hdrs, onlyhdr, locked, cur, lpath,
          input, released, scan, ctok, unit>>

----------------------------------------------------------------------------
(* Program constants *)

MYTOML_MAX_ID_LENGTH == 256
MYTOML_MAX_STRING_LENGTH == 4096
MYTOML_MAX_NUM_LINES == 16777216
MYTOML_MAX_SUBKEYS == 131072
MYTOML_MAX_ARRAY_LENGTH == 131072

(* Bounds *)

\* size_t is 64 bits wide in the build; the model checker's integers are 32
\* bits wide, so idx wraps modulo 2^30.  Only the order of (size_t)-1 and
\* MYTOML_MAX_ARRAY_LENGTH - 1 matters.
SIZE_T_MODULUS == 1073741824
MaxStmts == 3
MaxLookups == 2
MaxAdds == 3
MaxFill == 2
MaxTail == 3
MaxNewlines == 2
MaxStream == 4
MaxCount == 2
MaxBacktraces == 2
MaxGarbage == 1

NULL == 0

TOML_KEY == "KEY"
TOML_TABLE == "TABLE"
TOML_KEYLEAF == "KEYLEAF"
TOML_TABLELEAF == "TABLELEAF"
TOML_ARRAYTABLE == "ARRAYTABLE"
TomlKeyType == {TOML_KEY, TOML_TABLE, TOML_KEYLEAF, TOML_TABLELEAF, TOML_ARRAYTABLE}

Ids == {"a", "b"}
LookupIds == Ids \cup {"root"}

----------------------------------------------------------------------------
(* Values (TomlValue).  `data` of an INLINETABLE is the address of its key *)
(* node; `arr` holds the elements of an ARRAY.                             *)

NoValue == [type |-> "NULL", data |-> 0, arr |-> <<>>]

_mytoml_value_new_number(d, type) == [type |-> type, data |-> d, arr |-> <<>>]

_mytoml_value_new_datetime(dt) == [type |-> "DATETIME", data |-> dt, arr |-> <<>>]

_mytoml_value_new_string(s) == [type |-> "STRING", data |-> s, arr |-> <<>>]

_mytoml_value_new_array == [type |-> "ARRAY", data |-> 0, arr |-> <<>>]

----------------------------------------------------------------------------
(* Key nodes (TomlKey) *)

EmptyMap == [x \in {} |-> NULL]

\* calloc + the constructor's assignments; idx = -1 stored in a size_t
_mytoml_value_new_key(type) ==
  [type |-> type, id |-> "", subkeys |-> EmptyMap, value |-> NoValue,
   idx |-> (0 - 1) % SIZE_T_MODULUS]

\* allocation: the new node's address is the next free index
Alloc(h, node) == [heap |-> Append(h, node), ret |-> Len(h) + 1]

\* a parsed segment: new_key(type) followed by memcpy of the identifier
NewSubkey(h, type, id) == Alloc(h, [_mytoml_value_new_key(type) EXCEPT !.id = id])

_mytoml_value_has_sub_key(h, k, subkey) ==
  IF h[subkey].id \in DOMAIN h[k].subkeys THEN h[k].subkeys[h[subkey].id] ELSE NULL

keys_compatible_no_keyleaf_rule(existing, current) ==
  \/ (existing = TOML_TABLELEAF \/ existing = TOML_KEY) /\ current = TOML_TABLE
  \/ existing = TOML_TABLE /\ current = TOML_TABLELEAF
  \/ existing = TOML_ARRAYTABLE /\ current = TOML_TABLE
  \/ current = existing /\ current # TOML_TABLELEAF

keys_compatible_no_tableleaf_rule(existing, current) ==
  IF existing = TOML_KEYLEAF THEN FALSE
  ELSE IF (existing = TOML_TABLELEAF \/ existing = TOML_KEY) /\ current = TOML_TABLE THEN TRUE
  ELSE IF existing = TOML_TABLE /\ current = TOML_TABLELEAF THEN TRUE
  ELSE IF existing = TOML_ARRAYTABLE /\ current = TOML_TABLE THEN TRUE
  ELSE current = existing

keys_compatible_key_rejects_table(existing, current) ==
  IF existing = TOML_KEYLEAF THEN FALSE
  ELSE IF existing = TOML_TABLELEAF /\ current = TOML_TABLELEAF THEN FALSE
  ELSE IF existing = TOML_TABLELEAF /\ current = TOML_TABLE THEN TRUE
  ELSE IF existing = TOML_TABLE /\ current = TOML_TABLELEAF THEN TRUE
  ELSE IF existing = TOML_ARRAYTABLE /\ current = TOML_TABLE THEN TRUE
  ELSE current = existing

keys_compatible_table_accepts_arraytable(existing, current) ==
  IF existing = TOML_KEYLEAF THEN FALSE
  ELSE IF existing = TOML_TABLELEAF /\ current = TOML_TABLELEAF THEN FALSE
  ELSE IF (existing = TOML_TABLELEAF \/ existing = TOML_KEY) /\ current = TOML_TABLE THEN TRUE
  ELSE IF existing = TOML_TABLE /\ (current = TOML_TABLELEAF \/ current = TOML_ARRAYTABLE) THEN TRUE
  ELSE IF existing = TOML_ARRAYTABLE /\ current = TOML_TABLE THEN TRUE
  ELSE current = existing

keys_compatible_arraytable_accepts_tableleaf(existing, current) ==
  IF existing = TOML_KEYLEAF THEN FALSE
  ELSE IF existing = TOML_TABLELEAF /\ current = TOML_TABLELEAF THEN FALSE
  ELSE IF (existing = TOML_TABLELEAF \/ existing = TOML_KEY) /\ current = TOML_TABLE THEN TRUE
  ELSE IF existing = TOML_TABLE /\ current = TOML_TABLELEAF THEN TRUE
  ELSE IF existing = TOML_ARRAYTABLE /\ (current = TOML_TABLE \/ current = TOML_TABLELEAF) THEN TRUE
  ELSE current = existing

\* the redefinition rules, in the order of the source's tests
_mytoml_value_keys_compatible(existing, current) ==
  IF existing = TOML_KEYLEAF THEN FALSE
  ELSE IF existing = TOML_TABLELEAF /\ current = TOML_TABLELEAF THEN FALSE
  ELSE IF (existing = TOML_TABLELEAF \/ existing = TOML_KEY) /\ current = TOML_TABLE THEN TRUE
  ELSE IF existing = TOML_TABLE /\ current = TOML_TABLELEAF THEN TRUE
  ELSE IF existing = TOML_ARRAYTABLE /\ current = TOML_TABLE THEN TRUE
  ELSE IF current = existing THEN TRUE
  ELSE FALSE

\* one entry of the log of add calls made by a statement
\* (h: heap before the call, h2: heap after it)
AddRec(h, h2, k, s, subkey, ret) ==
  [parent |-> k, existing |-> s,
   ekind |-> IF s = NULL THEN "NONE" ELSE h[s].type,
   ckind |-> h[subkey].type, id |-> h[subkey].id, new |-> subkey, ret |-> ret,
   rkind |-> IF s = NULL THEN "NONE" ELSE h2[s].type,
   slot |-> IF h[subkey].id \in DOMAIN h2[k].subkeys THEN h2[k].subkeys[h[subkey].id] ELSE NULL]

UpgradeTableLeaf_skipped(h, s, subkey) == h

\* re-defining a TABLE as a TABLELEAF: the existing node s takes the kind
UpgradeTableLeaf(h, s, subkey) ==
  IF h[subkey].type = TOML_TABLELEAF THEN [h EXCEPT ![s].type = TOML_TABLELEAF] ELSE h

\* Result: [heap, ret, log].  ret = NULL is the failure return.
\* For an ARRAYTABLE parent the subkey goes into the active row
\* value->arr[idx]->data; without a row at idx that access is outside the
\* array, which the model reports as the failure return.
RECURSIVE _mytoml_value_add_sub_key(_, _, _)
_mytoml_value_add_sub_key(h, k, subkey) ==
  LET Merged(s, h2) == [heap |-> h2, ret |-> s, log |-> <<AddRec(h, h2, k, s, subkey, s)>>]
      Inserted(h2) ==
        [heap |-> h2, ret |-> subkey, log |-> <<AddRec(h, h2, k, NULL, subkey, subkey)>>]
      Failed(s) == [heap |-> h, ret |-> NULL, log |-> <<AddRec(h, h, k, s, subkey, NULL)>>]
      Found(s) ==
        IF s # NULL THEN
          IF _mytoml_value_keys_compatible(h[s].type, h[subkey].type)
          THEN Merged(s, UpgradeTableLeaf(h, s, subkey))
          ELSE Failed(s)
        ELSE IF Cardinality(DOMAIN h[k].subkeys) < MYTOML_MAX_SUBKEYS THEN
          IF h[k].type = TOML_ARRAYTABLE THEN
            IF h[k].value.type = "ARRAY" /\ h[k].idx + 1 \in 1..Len(h[k].value.arr)
            THEN _mytoml_value_add_sub_key(h, h[k].value.arr[h[k].idx + 1].data, subkey)
            ELSE Failed(NULL)
          ELSE Inserted([h EXCEPT ![k].subkeys = (h[subkey].id :> subkey) @@ @])
        ELSE Failed(NULL)
  IN Found(_mytoml_value_has_sub_key(h, k, subkey))

----------------------------------------------------------------------------
(* Documents.  A statement is a table header, an array-of-tables header or *)
(* a key-value pair; a path is the sequence of its dotted segments; a      *)
(* value is a scalar or an inline table, given by its entries.             *)

IntV(n) == [t |-> "int", v |-> n, s |-> "", entries |-> <<>>]
HexV(n) == [t |-> "hex", v |-> n, s |-> "", entries |-> <<>>]
BoolV(b) == [t |-> "bool", v |-> b, s |-> "", entries |-> <<>>]
DateV(d) == [t |-> "date", v |-> d, s |-> "", entries |-> <<>>]
StrV(x) == [t |-> "str", v |-> 0, s |-> x, entries |-> <<>>]
InlineV(es) == [t |-> "inline", v |-> 0, s |-> "", entries |-> es]
NoV == [t |-> "none", v |-> 0, s |-> "", entries |-> <<>>]
Entry(p, x) == [path |-> p, val |-> x]

TableStmt(p) == [kind |-> "table", path |-> p, val |-> NoV]
ArrayTableStmt(p) == [kind |-> "atable", path |-> p, val |-> NoV]
KeyValueStmt(p, x) == [kind |-> "kv", path |-> p, val |-> x]
NoStmt == [kind |-> "none", path |-> <<>>, val |-> NoV]

TableStmts == {TableStmt(p) : p \in {<<"a">>, <<"a", "b">>, <<"a", "b", "a">>}}

ArrayTableStmts == {ArrayTableStmt(p) : p \in {<<"a">>, <<"a", "b">>}}

InlineAB == InlineV(<<Entry(<<"a">>, IntV(1)), Entry(<<"b">>, IntV(2))>>)
InlineNested == InlineV(<<Entry(<<"b">>, InlineV(<<Entry(<<"a">>, IntV(1))>>))>>)

KeyValueStmts ==
  {KeyValueStmt(<<"a">>, IntV(1)), KeyValueStmt(<<"b">>, StrV("v")),
   KeyValueStmt(<<"a", "b">>, IntV(2)), KeyValueStmt(<<"a", "a">>, IntV(1)),
   KeyValueStmt(<<"b", "a">>, IntV(1)),
   KeyValueStmt(<<"a">>, InlineAB), KeyValueStmt(<<"a">>, InlineNested),
   KeyValueStmt(<<"b">>, HexV(255)), KeyValueStmt(<<"b">>, BoolV(1)),
   KeyValueStmt(<<"b">>, DateV(19790527))}

----------------------------------------------------------------------------
(* Key paths.  Each of the three walkers parses one segment, adds it to    *)
(* the current node and continues below the node the add returned.         *)

\* the segment parser: kind `branch` before a dot, `leaf` before the terminator
_mytoml_parser_bare_key(h, path, branch, leaf) ==
  NewSubkey(h, IF Len(path) > 1 THEN branch ELSE leaf, Head(path))

RECURSIVE _mytoml_parser_parse_key(_, _, _, _)
_mytoml_parser_parse_key(h, k, path, log) ==
  IF path = <<>> THEN [heap |-> h, ret |-> k, log |-> log]
  ELSE LET Added(r) ==
             IF r.ret = NULL THEN [heap |-> r.heap, ret |-> NULL, log |-> log \o r.log]
             ELSE _mytoml_parser_parse_key(r.heap, r.ret, Tail(path), log \o r.log)
           Segment(sk) == Added(_mytoml_value_add_sub_key(sk.heap, k, sk.ret))
       IN Segment(_mytoml_parser_bare_key(h, path, TOML_KEY, TOML_KEYLEAF))

RECURSIVE _mytoml_parser_parse_table(_, _, _, _)
_mytoml_parser_parse_table(h, k, path, log) ==
  IF path = <<>> THEN [heap |-> h, ret |-> k, log |-> log]
  ELSE LET Added(r) ==
             IF r.ret = NULL THEN [heap |-> r.heap, ret |-> NULL, log |-> log \o r.log]
             ELSE _mytoml_parser_parse_table(r.heap, r.ret, Tail(path), log \o r.log)
           Segment(sk) == Added(_mytoml_value_add_sub_key(sk.heap, k, sk.ret))
       IN Segment(_mytoml_parser_bare_key(h, path, TOML_TABLE, TOML_TABLELEAF))

RECURSIVE _mytoml_parser_parse_array_table(_, _, _, _)
_mytoml_parser_parse_array_table(h, k, path, log) ==
  IF path = <<>> THEN [heap |-> h, ret |-> k, log |-> log]
  ELSE LET Added(r) ==
             IF r.ret = NULL THEN [heap |-> r.heap, ret |-> NULL, log |-> log \o r.log]
             ELSE _mytoml_parser_parse_array_table(r.heap, r.ret, Tail(path), log \o r.log)
           Segment(sk) == Added(_mytoml_value_add_sub_key(sk.heap, k, sk.ret))
       IN Segment(_mytoml_parser_bare_key(h, path, TOML_TABLE, TOML_ARRAYTABLE))

----------------------------------------------------------------------------
(* Inline tables *)

\* the loop over a hash map that adds every entry of `src` to node k;
\* `strict` is TRUE where the caller returns on a failed add.
\* Result: [heap, ok, log]
RECURSIVE AddEach(_, _, _, _, _, _)
AddEach(h, k, src, ids, strict, log) ==
  IF ids = {} THEN [heap |-> h, ok |-> TRUE, log |-> log]
  ELSE LET Added(id, r) ==
             IF strict /\ r.ret = NULL THEN [heap |-> r.heap, ok |-> FALSE, log |-> log \o r.log]
             ELSE AddEach(r.heap, k, src, ids \ {id}, strict, log \o r.log)
           Pick(id) == Added(id, _mytoml_value_add_sub_key(h, k, src[id]))
       IN Pick(CHOOSE x \in ids : TRUE)

\* Result: [heap, val]; the value's data is a fresh KEY node holding k's subkeys
_mytoml_value_new_table(h, k) ==
  LET Filled(n, r) == [heap |-> r.heap, val |-> [type |-> "INLINETABLE", data |-> n, arr |-> <<>>]]
      Fill(a) == Filled(a.ret, AddEach(a.heap, a.ret, h[k].subkeys, DOMAIN h[k].subkeys, FALSE, <<>>))
  IN Fill(Alloc(h, _mytoml_value_new_key(TOML_KEY)))

MergeInline_stays_key(h, subkey, v, log) ==
  LET Unlocked(h1) == AddEach(h1, subkey, h1[v.data].subkeys, DOMAIN h1[v.data].subkeys, TRUE, log)
  IN Unlocked([h EXCEPT ![subkey].type = TOML_KEY])

\* the "unlock as KEY, add the subkeys, lock as KEYLEAF" step for a node
\* whose value was parsed as an inline table.  Result: [heap, ok, log]
MergeInline(h, subkey, v, log) ==
  LET Lock(r) ==
        IF ~r.ok THEN r
        ELSE [heap |-> [r.heap EXCEPT ![subkey].type = TOML_KEYLEAF], ok |-> TRUE, log |-> r.log]
      Unlocked(h1) ==
        Lock(AddEach(h1, subkey, h1[v.data].subkeys, DOMAIN h1[v.data].subkeys, TRUE, log))
  IN Unlocked([h EXCEPT ![subkey].type = TOML_KEY])

\* attach the parsed value v to the terminal node of a key-value pair
AttachValue(h, subkey, v, log) ==
  IF v.type = "INLINETABLE" THEN MergeInline(h, subkey, v, log)
  ELSE [heap |-> [h EXCEPT ![subkey].value = v], ok |-> TRUE, log |-> log]

\* The scalar scanners.  f is the sequence of byte classes that follow the
\* last byte of the scalar and num_end the set of classes that end a number;
\* each scanner stores bytes while the tokenizer has a token and converts on
\* the byte that ends the number.

\* the classes of the bytes of "# \n" and of ", }"
StatementNumEnd == {"hash", "ws", "nl"}
InlineNumEnd == {"other", "ws"}

_mytoml_is_number_end(c, num_end) == c \in num_end

\* a decimal number: converted on a number end and, after the loop, at the
\* end of input; a byte 0 is stored and stops the conversion short
_mytoml_parser_parse_number(f, num_end) ==
  _mytoml_is_number_end(Head(f), num_end) \/ Head(f) = "eof"

\* the digits after 0x, 0o or 0b: d stays -1 unless a number end is read
_mytoml_parser_parse_base_unit(f, num_end, n) ==
  IF _mytoml_is_number_end(Head(f), num_end) THEN n ELSE 0 - 1

\* a date-time: converted on a number end that is not the first space, or
\* on the second space; NULL when the loop ends without one
_mytoml_parser_parse_datetime(f, num_end) ==
  IF Head(f) # "ws" THEN _mytoml_is_number_end(Head(f), num_end)
  ELSE Len(f) > 1 /\ (f[2] = "ws" \/ _mytoml_is_number_end(f[2], num_end))

\* true or false: the bytes of the word and one more are read, whatever
\* follows
_mytoml_parser_parse_boolean(b) == b

\* Result of parse_value: [heap, ok, val, log]; of parse_inline_tabel:
\* [heap, ret, log] with ret the container node or NULL
RECURSIVE _mytoml_parser_parse_value(_, _, _, _, _)
RECURSIVE _mytoml_parser_parse_inline_tabel(_, _, _)
RECURSIVE InlineEntries(_, _, _, _)

_mytoml_parser_parse_value(h, x, f, num_end, log) ==
  IF x.t = "int" THEN
    IF _mytoml_parser_parse_number(f, num_end)
    THEN [heap |-> h, ok |-> TRUE, val |-> _mytoml_value_new_number(x.v, "INT"), log |-> log]
    ELSE [heap |-> h, ok |-> FALSE, val |-> NoValue, log |-> log]
  ELSE IF x.t = "hex" THEN
    IF _mytoml_parser_parse_base_unit(f, num_end, x.v) # 0 - 1
    THEN [heap |-> h, ok |-> TRUE, val |-> _mytoml_value_new_number(x.v, "INT"), log |-> log]
    ELSE [heap |-> h, ok |-> FALSE, val |-> NoValue, log |-> log]
  ELSE IF x.t = "date" THEN
    IF _mytoml_parser_parse_datetime(f, num_end)
    THEN [heap |-> h, ok |-> TRUE, val |-> _mytoml_value_new_datetime(x.v), log |-> log]
    ELSE [heap |-> h, ok |-> FALSE, val |-> NoValue, log |-> log]
  ELSE IF x.t = "bool" THEN
    [heap |-> h, ok |-> TRUE,
     val |-> _mytoml_value_new_number(_mytoml_parser_parse_boolean(x.v), "BOOL"), log |-> log]
  ELSE IF x.t = "str" THEN [heap |-> h, ok |-> TRUE, val |-> _mytoml_value_new_string(x.s), log |-> log]
  ELSE IF x.t = "inline" THEN
    LET Wrapped(t, l) == [heap |-> t.heap, ok |-> TRUE, val |-> t.val, log |-> l]
        Parsed(r) ==
          IF r.ret = NULL THEN [heap |-> r.heap, ok |-> FALSE, val |-> NoValue, log |-> r.log]
          ELSE Wrapped(_mytoml_value_new_table(r.heap, r.ret), r.log)
    IN Parsed(_mytoml_parser_parse_inline_tabel(h, x.entries, log))
  ELSE [heap |-> h, ok |-> FALSE, val |-> NoValue, log |-> log]

\* the loop over the entries between `{` and `}`
InlineEntries(h, keys, entries, log) ==
  IF entries = <<>> THEN [heap |-> h, ret |-> keys, log |-> log]
  ELSE LET Attached(m) ==
             IF ~m.ok THEN [heap |-> m.heap, ret |-> NULL, log |-> m.log]
             ELSE InlineEntries(m.heap, keys, Tail(entries), m.log)
           Valued(k, v) ==
             IF ~v.ok THEN [heap |-> v.heap, ret |-> NULL, log |-> v.log]
             ELSE Attached(AttachValue(v.heap, k.ret, v.val, v.log))
           Keyed(k) ==
             IF k.ret = NULL THEN [heap |-> k.heap, ret |-> NULL, log |-> k.log]
             ELSE Valued(k, _mytoml_parser_parse_value(k.heap, Head(entries).val, <<"other">>,
                                                       InlineNumEnd, k.log))
       IN Keyed(_mytoml_parser_parse_key(h, keys, Head(entries).path, log))

_mytoml_parser_parse_inline_tabel(h, entries, log) ==
  LET Entries(a) == InlineEntries(a.heap, a.ret, entries, log)
  IN Entries(Alloc(h, _mytoml_value_new_key(TOML_TABLE)))

----------------------------------------------------------------------------
(* Tokenizer, at the granularity of byte classes:                          *)
(*   "nul" the byte 0 (also what the end-of-input sentinel is turned into),*)
(*   "eof" the sentinel as stored in the buffer, "nl" newline, "ws" space  *)
(*   or tab, "hash" #, "lb" [, "key" a byte of a bare key, "other" the     *)
(*   remaining printable bytes.                                            *)

Classes == {"nl", "ws", "hash", "lb", "key", "eof"}

_mytoml_new_tokenizer == [token |-> "nul", prev |-> "nul", newline |-> FALSE, is_null |-> TRUE]

\* reads the byte of class c, unless the sentinel was read before
_mytoml_tokenizer_next_token(t, c) ==
  IF t.is_null THEN
    [token |-> IF c = "eof" THEN "nul" ELSE c, prev |-> t.token,
     newline |-> IF c = "nl" THEN TRUE
                 ELSE IF t.newline /\ t.token \notin {"nul", "ws", "nl"} THEN FALSE
                 ELSE t.newline,
     is_null |-> c # "eof"]
  ELSE [t EXCEPT !.prev = t.token]

_mytoml_tokenizer_has_token(t) == t.is_null

_mytoml_is_control(c) == c \in {"nul", "nl"}

\* the bytes of a statement that are read one after the other
RECURSIVE Consume(_, _)
Consume(t, cs) ==
  IF cs = <<>> THEN t ELSE Consume(_mytoml_tokenizer_next_token(t, Head(cs)), Tail(cs))

\* cs: the classes of the bytes after the current token
RECURSIVE _mytoml_parser_parse_whitespace(_, _)
_mytoml_parser_parse_whitespace(t, cs) ==
  IF _mytoml_tokenizer_has_token(t) /\ t.token = "ws" /\ cs # <<>>
  THEN _mytoml_parser_parse_whitespace(_mytoml_tokenizer_next_token(t, Head(cs)), Tail(cs))
  ELSE t

\* Result: [tok, ok]
RECURSIVE _mytoml_parser_parse_comment(_, _)
_mytoml_parser_parse_comment(t, cs) ==
  IF ~_mytoml_tokenizer_has_token(t) \/ cs = <<>> THEN [tok |-> t, ok |-> TRUE]
  ELSE LET Read(t1) ==
             IF t1.token = "nl"
             THEN [tok |-> _mytoml_tokenizer_next_token(t1, Head(Tail(cs))), ok |-> TRUE]
             ELSE IF _mytoml_is_control(t1.token) THEN [tok |-> t1, ok |-> FALSE]
             ELSE _mytoml_parser_parse_comment(t1, Tail(cs))
       IN Read(_mytoml_tokenizer_next_token(t, Head(cs)))

\* the byte classes of a statement as written in the document
RECURSIVE PathChars(_)
PathChars(p) ==
  IF Len(p) = 1 THEN <<"key">> ELSE <<"key", "other">> \o PathChars(Tail(p))

StmtChars(st) ==
  IF st.kind = "table" THEN <<"lb">> \o PathChars(st.path) \o <<"other">>
  ELSE IF st.kind = "atable" THEN <<"lb", "lb">> \o PathChars(st.path) \o <<"other", "other">>
  ELSE PathChars(st.path) \o <<"ws", "other", "ws", "other">>

\* what may follow a statement in a file
AnyFollow == {<<c>> : c \in Classes}
NonWs == Classes \ {"ws"}
KeyValueFollow == {<<c>> : c \in {"nl", "hash", "eof"}} \cup {<<"ws", c>> : c \in NonWs}
WhitespaceFollow == {<<c>> : c \in NonWs}
CommentFollow ==
  {<<"nl", c>> : c \in Classes} \cup {<<"other", "nl", c>> : c \in Classes}
    \cup {<<"eof">>, <<"other", "eof">>}

\* A file is loaded into a buffer that ends with the sentinel; a string is
\* copied as it is and ends with its terminating byte 0.
InputForms == {"file", "string"}
EndOf(form) == IF form = "file" THEN "eof" ELSE "nul"
ClassesOf(form) == (Classes \ {"eof"}) \cup {EndOf(form)}
InForm(form, F) ==
  {[i \in 1..Len(f) |-> IF f[i] = "eof" THEN EndOf(form) ELSE f[i]] : f \in F}

----------------------------------------------------------------------------
(* One driver iteration.  st is the statement that starts at the current   *)
(* token and f the classes of the bytes that follow it in the document.    *)
(* Result: [heap, tok, ret, log]; ret is the new current key, NULL on      *)
(* failure.                                                                *)

root == 1

\* the index test and the append of a fresh row after an accepted [[path]]
ArrayTableAppend(h, table) ==
  LET Rows(old, i, v) ==
        [j \in 1..(IF i + 1 > Len(old) THEN i + 1 ELSE Len(old)) |->
           IF j = i + 1 THEN v ELSE IF j <= Len(old) THEN old[j] ELSE NoValue]
      Push(i, old, t) ==
        [heap |-> [t.heap EXCEPT ![table].idx = i, ![table].value.arr = Rows(old, i, t.val)],
         ret |-> table]
      Row(h1, a) ==
        Push((h1[table].idx + 1) % SIZE_T_MODULUS, h1[table].value.arr,
             _mytoml_value_new_table(a.heap, a.ret))
      Test(h1) ==
        IF ~(h1[table].idx < (MYTOML_MAX_ARRAY_LENGTH - 1) % SIZE_T_MODULUS)
        THEN [heap |-> h1, ret |-> NULL]
        ELSE Row(h1, Alloc(h1, _mytoml_value_new_key(TOML_TABLE)))
  IN Test(IF h[table].value.type = "NULL"
          THEN [h EXCEPT ![table].value = _mytoml_value_new_array] ELSE h)

\* the test that a key starts a logical line
AtLineStart(t) == t.prev = "nul" \/ t.prev = "nl" \/ (t.prev = "ws" /\ t.newline)

_mytoml_parser_parse_key_value(h, t, k, st, f) ==
  LET Commented(c) == [heap |-> h, tok |-> c.tok, ret |-> IF c.ok THEN k ELSE NULL, log |-> <<>>]
      Appended(a, t2, l) == [heap |-> a.heap, tok |-> t2, ret |-> a.ret, log |-> l]
      ArrayTable(r, t2) ==
        IF r.ret = NULL THEN [heap |-> r.heap, tok |-> t2, ret |-> NULL, log |-> r.log]
        ELSE Appended(ArrayTableAppend(r.heap, r.ret), t2, r.log)
      Table(r, t2) == [heap |-> r.heap, tok |-> t2, ret |-> r.ret, log |-> r.log]
      Header(t2) ==
        IF st.kind = "atable"
        THEN ArrayTable(_mytoml_parser_parse_array_table(h, root, st.path, <<>>), t2)
        ELSE Table(_mytoml_parser_parse_table(h, root, st.path, <<>>), t2)
      Attached(m, t3) ==
        [heap |-> m.heap, tok |-> t3, ret |-> IF m.ok THEN k ELSE NULL, log |-> m.log]
      Valued(r, v, t2) ==
        IF ~v.ok THEN [heap |-> v.heap, tok |-> t2, ret |-> NULL, log |-> v.log]
        ELSE Attached(AttachValue(v.heap, r.ret, v.val, v.log),
                      _mytoml_parser_parse_whitespace(t2, Tail(f)))
      Keyed(r, t2) ==
        IF r.ret = NULL THEN [heap |-> r.heap, tok |-> t2, ret |-> NULL, log |-> r.log]
        ELSE Valued(r, _mytoml_parser_parse_value(r.heap, st.val, f, StatementNumEnd, r.log), t2)
  IN
  IF t.token = "hash" THEN Commented(_mytoml_parser_parse_comment(t, f))
  ELSE IF t.token = "ws" THEN
    [heap |-> h, tok |-> _mytoml_parser_parse_whitespace(t, f), ret |-> k, log |-> <<>>]
  ELSE IF t.token = "nl" THEN
    [heap |-> h, tok |-> _mytoml_tokenizer_next_token(t, Head(f)), ret |-> k, log |-> <<>>]
  ELSE IF t.token = "lb" THEN Header(Consume(t, Tail(StmtChars(st)) \o f))
  ELSE IF t.token = "nul" THEN
    \* the byte 0 starts no key: "unknown character" at a line start,
    \* "unhandled character" elsewhere
    [heap |-> h, tok |-> t, ret |-> NULL, log |-> <<>>]
  ELSE IF AtLineStart(t) THEN
    Keyed(_mytoml_parser_parse_key(h, k, st.path, <<>>),
          Consume(t, Tail(StmtChars(st)) \o <<Head(f)>>))
  ELSE [heap |-> h, tok |-> t, ret |-> NULL, log |-> <<>>]

\* the key nodes handed back to the allocator by deleting value v: the node
\* an INLINETABLE points to, and what deleting the elements up to the first
\* NULL of an array hands back
RECURSIVE _mytoml_value_delete(_)
_mytoml_value_delete(v) ==
  LET UpTo(n) == UNION {_mytoml_value_delete(v.arr[i]) : i \in 1..n}
      Stop == {i \in 1..Len(v.arr) : v.arr[i].type = "NULL"}
  IN (IF v.type = "INLINETABLE" THEN {v.data} ELSE {})
       \cup UpTo(IF Stop = {} THEN Len(v.arr) ELSE (CHOOSE i \in Stop : \A j \in Stop : i <= j) - 1)

\* the subkey map is destroyed, the value deleted and the node freed; the
\* nodes the map pointed to are not visited
_mytoml_value_delete_key(h, k) ==
  IF k = NULL THEN {}
  ELSE {k} \cup (IF h[k].value.type = "NULL" THEN {} ELSE _mytoml_value_delete(h[k].value))

toml_free(h, toml) == _mytoml_value_delete_key(h, toml)

toml_get_key(h, k, id) ==
  IF k = NULL THEN NULL
  ELSE IF h[k].id = id THEN k
  ELSE IF id \in DOMAIN h[k].subkeys THEN h[k].subkeys[id]
  ELSE NULL

----------------------------------------------------------------------------
(* The load: toml_load_file_name *)

NoLast ==
  [stmt |-> NoStmt, ok |-> TRUE, log |-> <<>>, before |-> NULL, ret |-> NULL, seen |-> FALSE,
   at |-> "nul"]

\* the node reached from k along path p through the subkey maps, or NULL
RECURSIVE Walk(_, _, _)
Walk(h, k, p) ==
  IF p = <<>> \/ k = NULL THEN k
  ELSE IF Head(p) \in DOMAIN h[k].subkeys THEN Walk(h, h[k].subkeys[Head(p)], Tail(p))
  ELSE NULL

\* the nodes that a key-value pair with an inline-table value locks: the
\* terminal node n and, through its entries, the nested inline tables
RECURSIVE InlineNodes(_, _, _)
InlineNodes(h, n, x) ==
  IF x.t # "inline" \/ n = NULL THEN {}
  ELSE {[node |-> n, ids |-> {x.entries[i].path[1] : i \in 1..Len(x.entries)}]}
       \cup UNION {InlineNodes(h, Walk(h, n, x.entries[i].path), x.entries[i].val) :
                     i \in 1..Len(x.entries)}

NoInput == [form |-> "none", empty |-> FALSE]
NoneReleased == [keys |-> {}, tok |-> FALSE]
NoScan ==
  [loop |-> "none", multi |-> FALSE, idx |-> 0, tail |-> <<>>, sep |-> TRUE, skipped |-> 0,
   top |-> 0 - 1, byte |-> "none", outcome |-> "idle"]
NoTokenizer == [stream |-> <<>>, cursor |-> 0, is_null |-> TRUE, op |-> "none"]
NoUnit == [op |-> "none"]

\* root is constructed, the input loaded and the first byte read
Init ==
  /\ heap = <<[_mytoml_value_new_key(TOML_TABLE) EXCEPT !.id = "root"]>>
  /\ key = root
  /\ \E form \in InputForms : \E c \in ClassesOf(form) :
       /\ input = [form |-> form, empty |-> (c = EndOf(form))]
       /\ tok = _mytoml_tokenizer_next_token(_mytoml_new_tokenizer, c)
  /\ released = NoneReleased
  /\ scan = NoScan
  /\ unit = NoUnit
  /\ ctok = NoTokenizer
  /\ pc = "parsing"
  /\ nstmts = 0
  /\ last = NoLast
  /\ hdrs = {}
  /\ onlyhdr = TRUE
  /\ locked = {}
  /\ cur = root
  /\ lpath = <<>>

\* one pass of the loop body with k handed to the statement parser as the
\* current table
IterateFrom(k, st, f) ==
  LET Step(r) ==
        /\ heap' = r.heap
        /\ tok' = r.tok
        /\ key' = r.ret
        /\ pc' = IF r.ret = NULL THEN "failed" ELSE "parsing"
        /\ last' = [stmt |-> st, ok |-> r.ret # NULL, log |-> r.log, before |-> k,
                    ret |-> r.ret, seen |-> st.path \in hdrs, at |-> tok.token]
        /\ nstmts' = IF st.kind = "none" THEN nstmts ELSE nstmts + 1
        /\ hdrs' = IF st.kind = "table" /\ r.ret # NULL THEN hdrs \cup {st.path} ELSE hdrs
        /\ onlyhdr' = (onlyhdr /\ st.kind \in {"none", "table"})
        /\ locked' = IF st.kind = "kv" /\ r.ret # NULL
                     THEN locked \cup InlineNodes(r.heap, Walk(r.heap, k, st.path), st.val)
                     ELSE locked
        /\ released' = IF r.ret = NULL
                       THEN [keys |-> toml_free(r.heap, root), tok |-> TRUE]
                       ELSE released
        /\ UNCHANGED <<cur, lpath, input, scan, ctok, unit>>
  IN Step(_mytoml_parser_parse_key_value(heap, tok, k, st, f))

Iterate_passes_root(st, f) == IterateFrom(root, st, f)

\* the loop body: key = parse_key_value(tok, key, root); on NULL the
\* tokenizer and the root are released and the load returns NULL
Iterate(st, f) == IterateFrom(key, st, f)

Running == pc = "parsing" /\ _mytoml_tokenizer_has_token(tok)

Comment ==
  Running /\ tok.token = "hash" /\ \E f \in InForm(input.form, CommentFollow) : Iterate(NoStmt, f)

Whitespace ==
  Running /\ tok.token = "ws" /\ \E f \in InForm(input.form, WhitespaceFollow) : Iterate(NoStmt, f)

Newline ==
  Running /\ tok.token = "nl" /\ \E f \in InForm(input.form, AnyFollow) : Iterate(NoStmt, f)

\* the terminating byte 0 of a string is handed to the statement parser
Terminator == Running /\ tok.token = "nul" /\ Iterate(NoStmt, <<>>)

TableHeader ==
  /\ Running /\ tok.token = "lb" /\ nstmts < MaxStmts
  /\ \E st \in TableStmts, f \in InForm(input.form, AnyFollow) : Iterate(st, f)

ArrayTableHeader ==
  /\ Running /\ tok.token = "lb" /\ nstmts < MaxStmts
  /\ \E st \in ArrayTableStmts, f \in InForm(input.form, AnyFollow) : Iterate(st, f)

KeyValue ==
  /\ Running /\ tok.token = "key" /\ AtLineStart(tok) /\ nstmts < MaxStmts
  /\ \E st \in KeyValueStmts, f \in InForm(input.form, KeyValueFollow) : Iterate(st, f)

\* a key that does not start a logical line: "unhandled character"
Unhandled ==
  /\ Running /\ tok.token = "key" /\ ~AtLineStart(tok) /\ nstmts < MaxStmts
  /\ \E st \in KeyValueStmts : Iterate(st, <<"nl">>)

\* the loop ends at the end of input: the tokenizer is deleted, root returned
Finish ==
  /\ pc = "parsing" /\ ~_mytoml_tokenizer_has_token(tok)
  /\ pc' = "done"
  /\ released' = [released EXCEPT !.tok = TRUE]
  /\ UNCHANGED <<heap, key, tok, nstmts, last, hdrs, onlyhdr, locked, cur, lpath,
                 input, scan, ctok, unit>>

\* the caller releases the returned tree: toml_free(root); the pointers it
\* got from lookups are dead from here on
Free ==
  /\ pc = "done"
  /\ pc' = "freed"
  /\ released' = [released EXCEPT !.keys = toml_free(heap, root)]
  /\ cur' = NULL
  /\ lpath' = <<>>
  /\ UNCHANGED <<heap, key, tok, nstmts, last, hdrs, onlyhdr, locked, input, scan, ctok, unit>>

\* the caller walks the returned tree: cur = toml_get_key(cur, id)
Lookup ==
  /\ pc = "done" /\ Len(lpath) < MaxLookups
  /\ \E id \in LookupIds :
       /\ cur' = toml_get_key(heap, cur, id)
       /\ lpath' = Append(lpath, id)
  /\ UNCHANGED <<heap, key, tok, pc, nstmts, last, hdrs, onlyhdr, locked,
                 input, released, scan, ctok, unit>>

Next ==
  \/ Comment
  \/ Whitespace
  \/ Newline
  \/ TableHeader
  \/ ArrayTableHeader
  \/ KeyValue
  \/ Unhandled
  \/ Terminator
  \/ Finish
  \/ Free
  \/ Lookup

Spec == Init /\ [][Next]_vars

----------------------------------------------------------------------------
(* Direct calls of the add operation on the subkeys of root *)

InitAdd ==
  /\ heap = <<[_mytoml_value_new_key(TOML_TABLE) EXCEPT !.id = "root"]>>
  /\ key = root
  /\ tok = _mytoml_new_tokenizer
  /\ input = NoInput
  /\ released = NoneReleased
  /\ scan = NoScan
  /\ unit = NoUnit
  /\ ctok = NoTokenizer
  /\ pc = "unit"
  /\ nstmts = 0
  /\ last = NoLast
  /\ hdrs = {}
  /\ onlyhdr = TRUE
  /\ locked = {}
  /\ cur = root
  /\ lpath = <<>>

\* a segment of kind `type` named id is constructed and added to root
AddSubKey ==
  /\ pc = "unit" /\ nstmts < MaxAdds
  /\ \E type \in TomlKeyType, id \in Ids :
       LET Added(r) ==
             /\ heap' = r.heap
             /\ last' = [NoLast EXCEPT !.ok = r.ret # NULL, !.log = r.log,
                                       !.before = root, !.ret = r.ret]
           Made(sk) == Added(_mytoml_value_add_sub_key(sk.heap, root, sk.ret))
       IN Made(NewSubkey(heap, type, id))
  /\ nstmts' = nstmts + 1
  /\ UNCHANGED <<key, tok, pc, hdrs, onlyhdr, locked, cur, lpath, input, released, scan, ctok, unit>>

\* the driver's step for a one-segment [[id]] header, run on the tree built
\* by the adds: the header's add call, then the index test and the append
ParseArrayTableHeader ==
  /\ pc = "unit" /\ nstmts < MaxAdds
  /\ \E id \in Ids :
       LET Parsed(st, r) ==
             /\ heap' = r.heap
             /\ last' = [NoLast EXCEPT !.stmt = st, !.ok = r.ret # NULL, !.log = r.log,
                                       !.before = key, !.ret = r.ret]
           Header(st) ==
             Parsed(st, _mytoml_parser_parse_key_value(
                          heap, _mytoml_tokenizer_next_token(_mytoml_new_tokenizer, "lb"),
                          key, st, <<"nl">>))
       IN Header(ArrayTableStmt(<<id>>))
  /\ nstmts' = nstmts + 1
  /\ UNCHANGED <<key, tok, pc, hdrs, onlyhdr, locked, cur, lpath, input, released, scan, ctok, unit>>

NextAdd ==
  \/ AddSubKey
  \/ ParseArrayTableHeader

SpecAdd == InitAdd /\ [][NextAdd]_vars

----------------------------------------------------------------------------
(* The scanning loops that fill a fixed buffer: the three key-segment      *)
(* scanners (id[MYTOML_MAX_ID_LENGTH]), the two string scanners            *)
(* (value[MYTOML_MAX_STRING_LENGTH]) and the array scanner                 *)
(* (arr[MYTOML_MAX_ARRAY_LENGTH]).  scan.idx is idx (arr->len for the      *)
(* array), scan.tail the bytes stored since the loop was entered in this   *)
(* run, scan.top the highest buffer index written, scan.skipped the        *)
(* newlines dropped at idx = 0, scan.byte the class of the last byte the   *)
(* loop looked at.                                                         *)

loadVars ==
  <<heap, key, tok, pc, nstmts, last, hdrs, onlyhdr, locked, cur, lpath, input, released>>

KeyLoops == {"bare_key", "basic_quoted_key", "literal_quoted_key"}
StringLoops == {"basic_string", "literal_string"}
Loops == KeyLoops \cup StringLoops \cup {"array"}

Capacity(loop) ==
  IF loop \in KeyLoops THEN MYTOML_MAX_ID_LENGTH
  ELSE IF loop \in StringLoops THEN MYTOML_MAX_STRING_LENGTH
  ELSE MYTOML_MAX_ARRAY_LENGTH

\* buffer[idx++] = b
Store(s, b) ==
  [s EXCEPT !.idx = s.idx + 1, !.tail = Append(s.tail, b),
            !.top = IF s.idx > s.top THEN s.idx ELSE s.top]

Rejected(s) == [s EXCEPT !.outcome = "rejected"]
Accepted(s) == [s EXCEPT !.outcome = "accepted"]

\* the n bytes of a decoded escape sequence: each is stored, then the index
\* is tested
RECURSIVE StoreEscaped(_, _)
StoreEscaped(s, n) ==
  IF n = 0 THEN s
  ELSE IF ~(s.idx + 1 < Capacity(s.loop)) THEN Rejected(Store(s, "byte"))
  ELSE StoreEscaped(Store(s, "byte"), n - 1)

\* one pass of the loop of a key-segment scanner on a byte of class b
KeyPass(s, b, n) ==
  IF ~(s.idx < MYTOML_MAX_ID_LENGTH) THEN Rejected(s)
  ELSE IF b = "end" THEN (IF s.loop = "bare_key" /\ s.idx = 0 THEN Rejected(s) ELSE Accepted(s))
  ELSE IF b = "nl" THEN Rejected(s)
  ELSE IF b = "escape" THEN StoreEscaped(s, n)
  ELSE Store(s, b)

\* one pass of the loop of a string scanner
StringPass(s, b, n) ==
  IF ~(s.idx < MYTOML_MAX_STRING_LENGTH) THEN Rejected(s)
  ELSE IF b = "end" THEN Accepted(s)
  ELSE IF b = "nl" /\ ~s.multi THEN Rejected(s)
  ELSE IF b = "nl" /\ s.multi /\ s.idx = 0 THEN [s EXCEPT !.skipped = s.skipped + 1]
  ELSE IF b = "escape" THEN StoreEscaped(s, n)
  ELSE Store(s, b)

\* one pass of the loop of the array scanner
ArrayPass(s, b) ==
  IF ~(s.idx < MYTOML_MAX_ARRAY_LENGTH) THEN Rejected(s)
  ELSE IF b = "end" THEN Accepted(s)
  ELSE IF b = "sep" THEN (IF s.sep THEN Rejected(s) ELSE [s EXCEPT !.sep = TRUE])
  ELSE IF ~s.sep THEN Rejected(s)
  ELSE [Store(s, b) EXCEPT !.sep = FALSE]

Pass(s, b, n) ==
  IF s.loop \in KeyLoops THEN KeyPass([s EXCEPT !.byte = b], b, n)
  ELSE IF s.loop \in StringLoops THEN StringPass([s EXCEPT !.byte = b], b, n)
  ELSE ArrayPass([s EXCEPT !.byte = b], b)

\* the fill levels a run starts from: near the empty and near the full buffer
Fills(loop) == {n \in 0..Capacity(loop) : n <= MaxFill \/ n >= Capacity(loop) - MaxFill}

\* the loop has been entered and has stored n bytes (elements)
InitScan ==
  /\ heap = <<[_mytoml_value_new_key(TOML_TABLE) EXCEPT !.id = "root"]>>
  /\ key = root
  /\ tok = _mytoml_new_tokenizer
  /\ input = NoInput
  /\ released = NoneReleased
  /\ ctok = NoTokenizer
  /\ unit = NoUnit
  /\ pc = "scan"
  /\ nstmts = 0
  /\ last = NoLast
  /\ hdrs = {}
  /\ onlyhdr = TRUE
  /\ locked = {}
  /\ cur = root
  /\ lpath = <<>>
  /\ \E loop \in Loops : \E n \in Fills(loop), multi \in BOOLEAN, sep \in BOOLEAN :
       /\ multi => loop \in StringLoops
       /\ sep = (loop # "array" \/ n = 0)
       /\ scan = [NoScan EXCEPT !.loop = loop, !.multi = multi, !.idx = n, !.sep = sep,
                                !.top = n - 1, !.outcome = "scanning"]

Scanning == pc = "scan" /\ scan.outcome = "scanning"

\* a byte that is stored as it is
ScanByte ==
  /\ Scanning /\ scan.loop # "array" /\ Len(scan.tail) < MaxTail
  /\ scan' = Pass(scan, "byte", 0)
  /\ UNCHANGED <<loadVars, ctok, unit>>

ScanNewline ==
  /\ Scanning /\ scan.loop # "array" /\ Len(scan.tail) < MaxTail
  /\ scan.skipped < MaxNewlines
  /\ scan' = Pass(scan, "nl", 0)
  /\ UNCHANGED <<loadVars, ctok, unit>>

\* a backslash sequence that decodes to n bytes
ScanEscape ==
  /\ Scanning /\ scan.loop \in {"basic_quoted_key", "basic_string"} /\ Len(scan.tail) < MaxTail
  /\ \E n \in 1..4 : scan' = Pass(scan, "escape", n)
  /\ UNCHANGED <<loadVars, ctok, unit>>

\* an array element, parsed and stored
ScanElement ==
  /\ Scanning /\ scan.loop = "array" /\ Len(scan.tail) < MaxTail
  /\ scan' = Pass(scan, "element", 0)
  /\ UNCHANGED <<loadVars, ctok, unit>>

ScanSeparator ==
  /\ Scanning /\ scan.loop = "array"
  /\ scan' = Pass(scan, "sep", 0)
  /\ UNCHANGED <<loadVars, ctok, unit>>

\* the byte that ends the segment, the closing delimiter, the closing bracket
ScanEnd ==
  /\ Scanning
  /\ scan' = Pass(scan, "end", 0)
  /\ UNCHANGED <<loadVars, ctok, unit>>

NextScan ==
  \/ ScanByte
  \/ ScanNewline
  \/ ScanEscape
  \/ ScanElement
  \/ ScanSeparator
  \/ ScanEnd

SpecScan == InitScan /\ [][NextScan]_vars

----------------------------------------------------------------------------
(* The tokenizer over a concrete buffer.  ctok.stream is the loaded file:  *)
(* its bytes followed by the sentinel "eof"; ctok.cursor counts from 0.    *)
(* ctok.mark is the tokenizer as it was when the last permitted backtrace  *)
(* was called, ctok.count its argument, ctok.since the advances made after *)
(* it, ctok.backs the number of backtraces so far, ctok.op the last call.  *)

Bytes == {"a", "b", "nl"}

Streams == UNION {[1..n -> Bytes] : n \in 1..MaxStream}

TokenizerFields == {"cursor", "token", "prev", "prev_prev", "is_null", "newline", "line", "col"}

NoMark ==
  [cursor |-> 0 - 1, token |-> "nul", prev |-> "nul", prev_prev |-> "nul", is_null |-> TRUE,
   newline |-> FALSE, line |-> 0, col |-> 0]

Snapshot(t) == [f \in TokenizerFields |-> t[f]]

NewTokenizer(stream) ==
  [stream |-> Append(stream, "eof"), cursor |-> 0, token |-> "nul", prev |-> "nul",
   prev_prev |-> "nul", is_null |-> TRUE, newline |-> FALSE, line |-> 0, col |-> 0,
   lines |-> [i \in 0..(MaxStream + 1) |-> 0],
   mark |-> NoMark, count |-> 0, since |-> 0, backs |-> 0, op |-> "new"]

\* the return value of next_token: 1 when a byte is read
Reads(t) == t.is_null \/ t.cursor = 0

\* token = stream[cursor++] and the bookkeeping that follows it; t has prev
\* and prev_prev shifted already
ReadByte(t, c) ==
  [t EXCEPT
     !.token = IF c = "eof" THEN "nul" ELSE c,
     !.cursor = t.cursor + 1,
     !.newline = IF c = "nl" THEN TRUE
                 ELSE IF t.newline /\ t.prev \notin {"nul", "nl"} THEN FALSE
                 ELSE t.newline,
     !.lines = IF t.prev = "nl" /\ t.line < MYTOML_MAX_NUM_LINES
               THEN [t.lines EXCEPT ![t.line] = t.col] ELSE t.lines,
     !.line = IF t.prev = "nl" THEN t.line + 1 ELSE t.line,
     !.col = IF t.prev = "nl" THEN 0 ELSE t.col + 1,
     !.is_null = IF c = "eof" THEN FALSE ELSE t.is_null]

NextToken(t) ==
  IF Reads(t)
  THEN ReadByte([t EXCEPT !.prev_prev = t.prev, !.prev = t.token], t.stream[t.cursor + 1])
  ELSE [t EXCEPT !.prev_prev = t.prev, !.prev = t.token]

\* the walk back through the line-length table; g is what the read of
\* lines[-1] returns.  Result: [line, col, pre_count]
RECURSIVE Rewind(_, _, _, _, _)
Rewind(line, col, pre_count, lines, g) ==
  IF line >= 0 /\ pre_count > col
  THEN Rewind(line - 1, IF line - 1 >= 0 THEN lines[line - 1] ELSE g, pre_count - col, lines, g)
  ELSE [line |-> line, col |-> col, pre_count |-> pre_count]

BacktracePermitted(t, count) == count > 0 /\ t.cursor > count + 2

Backtrace_single_refill(t, count, g) ==
  LET Placed(r) ==
        NextToken(
          [t EXCEPT !.cursor = t.cursor - (count + 2),
                    !.is_null = TRUE,
                    !.line = IF r.line < 0 THEN 0 ELSE r.line,
                    !.col = IF r.col - r.pre_count < 0 THEN 0 ELSE r.col - r.pre_count])
  IN IF BacktracePermitted(t, count)
     THEN Placed(Rewind(t.line, t.col, count + 2, t.lines, g))
     ELSE t

Backtrace_keeps_flag(t, count, g) ==
  LET Placed(r) ==
        NextToken(NextToken(
          [t EXCEPT !.cursor = t.cursor - (count + 2),
                    !.line = IF r.line < 0 THEN 0 ELSE r.line,
                    !.col = IF r.col - r.pre_count < 0 THEN 0 ELSE r.col - r.pre_count]))
  IN IF BacktracePermitted(t, count)
     THEN Placed(Rewind(t.line, t.col, count + 2, t.lines, g))
     ELSE t

Backtrace(t, count, g) ==
  LET Placed(r) ==
        NextToken(NextToken(
          [t EXCEPT !.cursor = t.cursor - (count + 2),
                    !.is_null = TRUE,
                    !.line = IF r.line < 0 THEN 0 ELSE r.line,
                    !.col = IF r.col - r.pre_count < 0 THEN 0 ELSE r.col - r.pre_count]))
  IN IF BacktracePermitted(t, count)
     THEN Placed(Rewind(t.line, t.col, count + 2, t.lines, g))
     ELSE t

\* the read of lines[-1] happens
ReadsBeforeTable(t, count) ==
  BacktracePermitted(t, count) /\ Rewind(t.line, t.col, count + 2, t.lines, 0).line < 0

\* a tokenizer is made for a loaded file; nothing is read yet
InitTok ==
  /\ heap = <<[_mytoml_value_new_key(TOML_TABLE) EXCEPT !.id = "root"]>>
  /\ key = root
  /\ tok = _mytoml_new_tokenizer
  /\ input = NoInput
  /\ released = NoneReleased
  /\ scan = NoScan
  /\ unit = NoUnit
  /\ pc = "tokens"
  /\ nstmts = 0
  /\ last = NoLast
  /\ hdrs = {}
  /\ onlyhdr = TRUE
  /\ locked = {}
  /\ cur = root
  /\ lpath = <<>>
  /\ \E stream \in Streams : ctok = NewTokenizer(stream)

\* the parser calls next_token
Advance ==
  /\ pc = "tokens"
  /\ ctok' = [NextToken(ctok) EXCEPT
                !.since = IF ctok.since <= MaxCount + 2 THEN ctok.since + 1 ELSE ctok.since,
                !.op = "advance"]
  /\ UNCHANGED <<loadVars, scan, unit>>

\* the parser calls backtrace(count) and the call is permitted
BacktraceCall ==
  /\ pc = "tokens" /\ ctok.backs < MaxBacktraces
  /\ \E count \in 1..MaxCount, g \in 0..MaxGarbage :
       /\ BacktracePermitted(ctok, count)
       /\ g # 0 => ReadsBeforeTable(ctok, count)
       /\ ctok' = [Backtrace(ctok, count, g) EXCEPT
                     !.mark = Snapshot(ctok), !.count = count, !.since = 0,
                     !.backs = ctok.backs + 1, !.op = "backtrace"]
  /\ UNCHANGED <<loadVars, scan, unit>>

\* the call is refused: an error is logged and nothing changes
BacktraceRefused ==
  /\ pc = "tokens" /\ ctok.op # "refused"
  /\ \E count \in 0..MaxCount :
       /\ ~BacktracePermitted(ctok, count)
       /\ ctok' = [Backtrace(ctok, count, 0) EXCEPT !.op = "refused"]
  /\ UNCHANGED <<loadVars, scan, unit>>

NextTok ==
  \/ Advance
  \/ BacktraceCall
  \/ BacktraceRefused

SpecTok == InitTok /\ [][NextTok]_vars

-----------------------------------------------------------------------------
(* Escape sequences of a basic string, byte by byte.  A byte is its code;   *)
(* the buffer ends with the EOF byte.  unit.cursor counts the bytes read,   *)
(* so the token is unit.stream[unit.cursor].                                *)

MaxFollow == 2

EOFByte == 0 - 1
Quote == 34
Backslash == 92
LetterB == 66
LetterC == 67
LetterG == 71
LetterN == 110
LetterSmallU == 117
LetterBigU == 85
Comma == 44
Space == 32
Tab == 9
LineFeed == 10
Hash == 35
ArrayEnd == 93
DigitOne == 49
Apostrophe == 39
InlineEnd == 125

_mytoml_is_whitesapce(c) == c = Space \/ c = Tab

_mytoml_is_newline(c) == c = LineFeed

_mytoml_is_comment_start(c) == c = Hash

_mytoml_is_array_end(c) == c = ArrayEnd

_mytoml_is_array_seperator(c) == c = Comma

_mytoml_is_literal_string_start(c) == c = Apostrophe

_mytoml_is_digit(c) == c >= 48 /\ c <= 57

_mytoml_is_hex_digit(c) == (c >= 65 /\ c <= 70) \/ (c >= 97 /\ c <= 102)

_mytoml_is_escape(c) == c = Backslash

_mytoml_is_basic_string_start(c) == c = Quote

\* bitwise operators of C on non-negative integers
RECURSIVE BitAnd(_, _)
BitAnd(a, b) ==
  IF a = 0 \/ b = 0 THEN 0
  ELSE (a % 2) * (b % 2) + 2 * BitAnd(a \div 2, b \div 2)

RECURSIVE BitOr(_, _)
BitOr(a, b) ==
  IF a = 0 THEN b
  ELSE IF b = 0 THEN a
  ELSE (IF a % 2 = 1 \/ b % 2 = 1 THEN 1 ELSE 0) + 2 * BitOr(a \div 2, b \div 2)

RECURSIVE ShiftRight(_, _)
ShiftRight(a, n) == IF n = 0 THEN a ELSE ShiftRight(a \div 2, n - 1)

\* the value stored in a char, as an unsigned byte
ToByte(x) == x % 256

\* strtoul(code, &end, 16) on a text of hexadecimal digits only
HexDigitValue(c) == IF c <= 57 THEN c - 48 ELSE IF c <= 70 THEN c - 55 ELSE c - 87

RECURSIVE strtoul(_)
strtoul(code) ==
  IF code = <<>> THEN 0
  ELSE 16 * strtoul(SubSeq(code, 1, Len(code) - 1)) + HexDigitValue(code[Len(code)])

\* the bytes written to `escaped` for the code point num; <<>> is the
\* return value 0
UnicodeBytes(num) ==
  IF ~((num >= 0 /\ num <= 55295) \/ (num >= 57344 /\ num <= 1114111)) THEN <<>>
  ELSE IF num <= 0 /\ num <= 127 THEN <<BitAnd(num, 127)>>
  ELSE IF num >= 128 /\ num <= 2047
    THEN <<ToByte(BitAnd(BitOr(192, ShiftRight(num, 6)), 223)),
           ToByte(BitAnd(BitOr(128, num), 191))>>
  ELSE IF num >= 2048 /\ num <= 65535
    THEN <<ToByte(BitAnd(BitOr(224, ShiftRight(num, 12)), 239)),
           ToByte(BitAnd(BitOr(128, ShiftRight(num, 6)), 191)),
           ToByte(BitAnd(BitOr(128, num), 191))>>
  ELSE <<ToByte(BitAnd(BitOr(240, ShiftRight(num, 18)), 247)),
         ToByte(BitAnd(BitOr(128, ShiftRight(num, 12)), 191)),
         ToByte(BitAnd(BitOr(128, ShiftRight(num, 6)), 191)),
         ToByte(BitAnd(BitOr(128, num), 191))>>

\* next_token on the byte buffer: at the EOF byte the tokenizer has no token
UnitToken(u) == u.stream[u.cursor]
UnitHasToken(u) == UnitToken(u) # EOFByte
UnitNext(u) == IF UnitHasToken(u) THEN [u EXCEPT !.cursor = u.cursor + 1] ELSE u

\* the token; at the end of input it is the byte 0
UnitChar(u) == IF UnitHasToken(u) THEN UnitToken(u) ELSE 0

\* one pass of the loop of _mytoml_parser_parse_unicode
UnicodePass(u) ==
  IF ~UnitHasToken(u) THEN [u EXCEPT !.at = "returned", !.escaped = <<>>]
  ELSE IF u.digits > 8 THEN [u EXCEPT !.at = "returned", !.escaped = <<>>]
  ELSE IF _mytoml_is_hex_digit(UnitToken(u)) \/ _mytoml_is_digit(UnitToken(u))
    THEN [UnitNext(u) EXCEPT !.code = Append(u.code, UnitToken(u)), !.digits = u.digits + 1]
  ELSE IF u.digits # 4 /\ u.digits # 8 THEN [u EXCEPT !.at = "returned", !.escaped = <<>>]
  ELSE [u EXCEPT !.at = "returned", !.escaped = UnicodeBytes(strtoul(u.code))]

\* _mytoml_parser_parse_escape up to the call of parse_unicode
_mytoml_parser_parse_escape(u) ==
  IF UnitToken(u) = LetterN
    THEN [UnitNext(u) EXCEPT !.at = "returned", !.escaped = <<10>>]
  ELSE IF UnitToken(u) = LetterSmallU \/ UnitToken(u) = LetterBigU
    THEN [UnitNext(u) EXCEPT !.at = "unicode", !.letter = UnitToken(u), !.digits = 0,
                             !.code = <<>>]
  ELSE [u EXCEPT !.at = "returned", !.escaped = <<>>]

\* the escape branch of _mytoml_parser_parse_basic_string after
\* parse_escape has returned (single-line string): the bytes are stored,
\* backtrace(1) and the next_token at the foot of the loop leave the cursor
\* on the byte that follows the sequence
StoreEscape(u) ==
  IF u.escaped = <<>> THEN [u EXCEPT !.at = "rejected"]
  ELSE [u EXCEPT !.at = "string", !.out = u.out \o u.escaped, !.escapes = u.escapes + 1]

\* one pass of the loop of _mytoml_parser_parse_basic_string on a byte that
\* is not an escape (single-line string, no control bytes in the buffer)
StringBytePass(u) ==
  IF ~UnitHasToken(u) THEN [u EXCEPT !.at = "rejected"]
  ELSE IF _mytoml_is_basic_string_start(UnitToken(u)) THEN [UnitNext(u) EXCEPT !.at = "accepted"]
  ELSE [UnitNext(u) EXCEPT !.out = Append(u.out, UnitToken(u))]

\* the buffers: backslash, escape letter, the hexadecimal text of a code
\* point in 4 or 8 digits or one digit short of that, up to MaxFollow
\* further bytes, and the closing quote or the end of input
Scalars ==
  {0, 65, 127, 128, 2047, 2048, 55295, 55296, 57343, 57344, 65535, 65536, 1114111, 1114112}

HexChar(d) == IF d < 10 THEN 48 + d ELSE 55 + d

RECURSIVE HexText(_, _)
HexText(v, n) == IF n = 0 THEN <<>> ELSE Append(HexText(v \div 16, n - 1), HexChar(v % 16))

FollowBytes == {LetterB, LetterC, LetterG}

Follows == UNION {[1..n -> FollowBytes] : n \in 0..MaxFollow}

EscapeLetters == {LetterSmallU, LetterBigU, LetterN, LetterG}

NewEscape(letter, text, follow, closed) ==
  [op |-> "escape",
   stream |-> <<Backslash, letter>> \o text \o follow \o
              (IF closed THEN <<Quote, EOFByte>> ELSE <<EOFByte>>),
   cursor |-> 1, at |-> "value", out |-> <<>>, escaped |-> <<>>, escapes |-> 0,
   letter |-> 0, digits |-> 0, code |-> <<>>,
   text |-> text, follow |-> follow, closed |-> closed, delim |-> Quote, empty |-> FALSE]

\* the buffers of an empty string: the closing delimiter and the byte that
\* follows it in a statement, an array or an inline table, or nothing
AfterValue == {<<>>, <<LineFeed>>, <<Space>>, <<Tab>>, <<Hash>>, <<Comma>>, <<ArrayEnd>>,
               <<InlineEnd>>}

NewEmpty(delim, follow) ==
  [op |-> "escape", stream |-> <<delim>> \o follow \o <<EOFByte>>,
   cursor |-> 1, at |-> "value", out |-> <<>>, escaped |-> <<>>, escapes |-> 0,
   letter |-> 0, digits |-> 0, code |-> <<>>,
   text |-> <<>>, follow |-> follow, closed |-> TRUE, delim |-> delim, empty |-> TRUE]

\* the string branches of _mytoml_parser_parse_value after the opening
\* delimiter: a second delimiter is followed by a third one (multi-line
\* string), by whitespace or a newline (empty string), or the value is
\* rejected; any other first byte starts the single-line scanner
StringStart(u) ==
  IF UnitHasToken(u) /\ UnitToken(u) = u.delim
  THEN (IF UnitHasToken(UnitNext(u)) /\ UnitToken(UnitNext(u)) = u.delim
          THEN [UnitNext(UnitNext(u)) EXCEPT !.at = "multi"]
        ELSE IF _mytoml_is_whitesapce(UnitChar(UnitNext(u))) \/ _mytoml_is_newline(UnitChar(UnitNext(u)))
          THEN [UnitNext(u) EXCEPT !.at = "accepted"]
        ELSE [UnitNext(u) EXCEPT !.at = "rejected"])
  ELSE [u EXCEPT !.at = "string"]

InitEsc ==
  /\ heap = <<[_mytoml_value_new_key(TOML_TABLE) EXCEPT !.id = "root"]>>
  /\ key = root
  /\ tok = _mytoml_new_tokenizer
  /\ input = NoInput
  /\ released = NoneReleased
  /\ scan = NoScan
  /\ ctok = NoTokenizer
  /\ pc = "escape"
  /\ nstmts = 0
  /\ last = NoLast
  /\ hdrs = {}
  /\ onlyhdr = TRUE
  /\ locked = {}
  /\ cur = root
  /\ lpath = <<>>
  /\ \/ \E letter \in EscapeLetters, v \in Scalars, width \in {4, 8}, short \in BOOLEAN,
           follow \in Follows, closed \in BOOLEAN :
          /\ width = 4 => v <= 65535
          /\ letter \in {LetterN, LetterG} => (v = 0 /\ width = 4 /\ ~short)
          /\ unit = NewEscape(letter,
                              IF letter \in {LetterN, LetterG} THEN <<>>
                              ELSE IF short THEN SubSeq(HexText(v, width), 1, width - 1)
                              ELSE HexText(v, width),
                              follow, closed)
     \/ \E delim \in {Quote, Apostrophe}, follow \in AfterValue :
          unit = NewEmpty(delim, follow)

restVars == <<loadVars, scan, ctok>>

\* parse_value has read the opening delimiter of a string
ValueStart ==
  /\ pc = "escape" /\ unit.at = "value"
  /\ unit' = StringStart(unit)
  /\ UNCHANGED restVars

\* the string loop meets the backslash and calls parse_escape
EscapeStart ==
  /\ pc = "escape" /\ unit.at = "string" /\ _mytoml_is_escape(UnitToken(unit))
  /\ unit' = _mytoml_parser_parse_escape(UnitNext(unit))
  /\ UNCHANGED restVars

\* parse_unicode takes one more hexadecimal digit
UnicodeDigit ==
  /\ pc = "escape" /\ unit.at = "unicode"
  /\ UnicodePass(unit).at = "unicode"
  /\ unit' = UnicodePass(unit)
  /\ UNCHANGED restVars

\* parse_unicode returns
UnicodeReturn ==
  /\ pc = "escape" /\ unit.at = "unicode"
  /\ UnicodePass(unit).at = "returned"
  /\ unit' = UnicodePass(unit)
  /\ UNCHANGED restVars

\* the string loop stores the bytes of the sequence or fails
EscapeStore ==
  /\ pc = "escape" /\ unit.at = "returned"
  /\ unit' = StoreEscape(unit)
  /\ UNCHANGED restVars

\* the string loop on any other byte, the closing quote or the end of input
StringByte ==
  /\ pc = "escape" /\ unit.at = "string" /\ ~_mytoml_is_escape(UnitToken(unit))
  /\ unit' = StringBytePass(unit)
  /\ UNCHANGED restVars

NextEsc ==
  \/ ValueStart
  \/ EscapeStart
  \/ UnicodeDigit
  \/ UnicodeReturn
  \/ EscapeStore
  \/ StringByte

SpecEsc == InitEsc /\ [][NextEsc]_vars

-----------------------------------------------------------------------------
(* An array body, byte by byte: the bytes after the opening bracket.  The   *)
(* elements are decimal integers written with the digit 1.                  *)

MaxArrayBytes == 4

\* _mytoml_is_control on a byte
IsControlByte(c) == (c >= 0 /\ c <= 8) \/ (c >= 10 /\ c <= 31) \/ c = 127

\* the number ends handed to parse_value by parse_array: "#,] \n"
ArrayNumEnd == {Hash, Comma, ArrayEnd, Space, LineFeed}

\* _mytoml_parser_parse_whitespace
RECURSIVE SkipWhitespace(_)
SkipWhitespace(u) ==
  IF UnitHasToken(u) /\ _mytoml_is_whitesapce(UnitToken(u)) THEN SkipWhitespace(UnitNext(u))
  ELSE u

\* _mytoml_parser_parse_comment: ok is its return value
RECURSIVE SkipComment(_)
SkipComment(u) ==
  IF ~UnitHasToken(u) THEN [u EXCEPT !.ok = TRUE]
  ELSE IF _mytoml_is_newline(UnitChar(UnitNext(u))) THEN [UnitNext(UnitNext(u)) EXCEPT !.ok = TRUE]
  ELSE IF IsControlByte(UnitChar(UnitNext(u))) THEN [UnitNext(u) EXCEPT !.ok = FALSE]
  ELSE SkipComment(UnitNext(u))

\* strtod on the bytes collected for a number: the whole text is converted
\* only when it is made of digits
RECURSIVE strtod(_)
strtod(text) ==
  IF text = <<>> THEN 0 ELSE 10 * strtod(SubSeq(text, 1, Len(text) - 1)) + (text[Len(text)] - 48)

ConvertsWhole(text) == \A i \in 1..Len(text) : _mytoml_is_digit(text[i])

\* the loop of _mytoml_parser_parse_number on a text that starts with a
\* digit other than 0: bytes are collected up to a number end or the end of
\* input, then converted
RECURSIVE NumberScan(_, _, _)
NumberScan(u, text, num_end) ==
  IF UnitHasToken(u) /\ ~_mytoml_is_number_end(UnitToken(u), num_end)
    THEN NumberScan(UnitNext(u), Append(text, UnitToken(u)), num_end)
  ELSE IF ConvertsWhole(text) THEN [u EXCEPT !.ok = TRUE, !.value = strtod(text)]
  ELSE [u EXCEPT !.ok = FALSE]

\* the number branch of _mytoml_parser_parse_value: it looks two or four
\* bytes ahead for a time or a date and backtraces to the first digit,
\* allocates the value slot d and the scratch record num, and calls
\* parse_number, whose result n is num or NULL.  On failure free(d) and
\* free(n) are called, n being NULL; on success free(d) and free(n)
ParseValueNumber(u, num_end) ==
  LET K(r) == IF r.ok THEN [r EXCEPT !.scratch = (r.scratch \ {"value slot"}) \ {"number record"}]
              ELSE [r EXCEPT !.scratch = r.scratch \ {"value slot"}]
  IN K(NumberScan([u EXCEPT !.scratch = {"value slot", "number record"}], <<>>, num_end))

\* the value branch of the array loop
ArrayValuePass(u) ==
  IF u.sep = FALSE THEN [u EXCEPT !.at = "rejected"]
  ELSE IF ~_mytoml_is_digit(UnitToken(u)) THEN [u EXCEPT !.at = "rejected"]
  ELSE LET K(r) == IF r.ok THEN [r EXCEPT !.elems = Append(u.elems, r.value), !.sep = FALSE]
                   ELSE [r EXCEPT !.at = "rejected"]
       IN K(ParseValueNumber(u, ArrayNumEnd))

\* one pass of the loop of _mytoml_parser_parse_array
ArrayBytePass(u) ==
  IF ~UnitHasToken(u) THEN [u EXCEPT !.at = "rejected"]
  ELSE IF ~(Len(u.elems) < MYTOML_MAX_ARRAY_LENGTH) THEN [u EXCEPT !.at = "rejected"]
  ELSE IF _mytoml_is_array_end(UnitToken(u)) THEN [UnitNext(u) EXCEPT !.at = "accepted"]
  ELSE IF _mytoml_is_array_seperator(UnitToken(u))
    THEN (IF u.sep THEN [u EXCEPT !.at = "rejected"] ELSE [UnitNext(u) EXCEPT !.sep = TRUE])
  ELSE IF _mytoml_is_newline(UnitToken(u)) THEN UnitNext(u)
  ELSE IF _mytoml_is_whitesapce(UnitToken(u)) THEN SkipWhitespace(u)
  ELSE IF _mytoml_is_comment_start(UnitToken(u))
    THEN LET K(r) == IF r.ok THEN r ELSE [r EXCEPT !.at = "rejected"] IN K(SkipComment(u))
  ELSE ArrayValuePass(u)

\* the whole call of _mytoml_parser_parse_array
RECURSIVE _mytoml_parser_parse_array(_)
_mytoml_parser_parse_array(u) ==
  IF u.at # "array" THEN u ELSE _mytoml_parser_parse_array(ArrayBytePass(u))

\* the array bodies: up to MaxArrayBytes bytes out of digit, comma and
\* closing bracket, and at one place of it nothing, or whitespace, a newline
\* or a comment
ArrayBases == UNION {[1..n -> {DigitOne, Comma, ArrayEnd}] : n \in 1..MaxArrayBytes}

Fillers == {<<>>, <<Space>>, <<Tab>>, <<LineFeed>>, <<Hash, DigitOne, LineFeed>>}

\* the place p of a text lies inside a number
InsideNumber(base, p) ==
  p >= 1 /\ p < Len(base) /\ _mytoml_is_digit(base[p]) /\ _mytoml_is_digit(base[p + 1])

NewArray(stream, base, filler, p) ==
  [op |-> "array", stream |-> Append(stream, EOFByte), cursor |-> 1, at |-> "array",
   sep |-> TRUE, elems |-> <<>>, ok |-> TRUE, value |-> 0, scratch |-> {},
   base |-> base, filler |-> filler, p |-> p]

InitArr ==
  /\ heap = <<[_mytoml_value_new_key(TOML_TABLE) EXCEPT !.id = "root"]>>
  /\ key = root
  /\ tok = _mytoml_new_tokenizer
  /\ input = NoInput
  /\ released = NoneReleased
  /\ scan = NoScan
  /\ ctok = NoTokenizer
  /\ pc = "array"
  /\ nstmts = 0
  /\ last = NoLast
  /\ hdrs = {}
  /\ onlyhdr = TRUE
  /\ locked = {}
  /\ cur = root
  /\ lpath = <<>>
  /\ \E base \in ArrayBases, filler \in Fillers :
       \E p \in 0..Len(base) :
         /\ filler = <<>> => p = 0
         /\ unit = NewArray(SubSeq(base, 1, p) \o filler \o SubSeq(base, p + 1, Len(base)),
                            base, filler, p)

InArray == pc = "array" /\ unit.at = "array"

\* the closing bracket
ArrayClose ==
  /\ InArray /\ UnitHasToken(unit) /\ _mytoml_is_array_end(UnitToken(unit))
  /\ unit' = ArrayBytePass(unit)
  /\ UNCHANGED restVars

\* a comma
ArraySeparator ==
  /\ InArray /\ UnitHasToken(unit) /\ _mytoml_is_array_seperator(UnitToken(unit))
  /\ unit' = ArrayBytePass(unit)
  /\ UNCHANGED restVars

\* a newline
ArrayNewline ==
  /\ InArray /\ UnitHasToken(unit) /\ _mytoml_is_newline(UnitToken(unit))
  /\ unit' = ArrayBytePass(unit)
  /\ UNCHANGED restVars

\* a run of spaces and tabs
ArrayWhitespace ==
  /\ InArray /\ UnitHasToken(unit) /\ _mytoml_is_whitesapce(UnitToken(unit))
  /\ unit' = ArrayBytePass(unit)
  /\ UNCHANGED restVars

\* a comment up to the end of its line
ArrayComment ==
  /\ InArray /\ UnitHasToken(unit) /\ _mytoml_is_comment_start(UnitToken(unit))
  /\ unit' = ArrayBytePass(unit)
  /\ UNCHANGED restVars

\* an element
ArrayValue ==
  /\ InArray /\ UnitHasToken(unit) /\ _mytoml_is_digit(UnitToken(unit))
  /\ unit' = ArrayBytePass(unit)
  /\ UNCHANGED restVars

\* the end of input before the closing bracket
ArrayEndOfInput ==
  /\ InArray /\ ~UnitHasToken(unit)
  /\ unit' = ArrayBytePass(unit)
  /\ UNCHANGED restVars

NextArr ==
  \/ ArrayClose
  \/ ArraySeparator
  \/ ArrayNewline
  \/ ArrayWhitespace
  \/ ArrayComment
  \/ ArrayValue
  \/ ArrayEndOfInput

SpecArr == InitArr /\ [][NextArr]_vars

-----------------------------------------------------------------------------
(* Scalar leaves: the fraction of a second as parse_datetime reads it, and  *)
(* the text toml_key_dump_buffer writes.  A text is a sequence of atoms:    *)
(* the double quote, punctuation, words, and single characters of a value.  *)

MaxFractionDigits == 4

Q == "\""

DigitAtoms == <<"0", "1", "2", "3", "4", "5", "6", "7", "8", "9">>

IsDigitAtom(a) == \E i \in 1..10 : DigitAtoms[i] = a

DigitValue(a) == (CHOOSE i \in 1..10 : DigitAtoms[i] = a) - 1

\* sscanf("%d") on a run of digits
RECURSIVE ScanInt(_)
ScanInt(ds) ==
  IF ds = <<>> THEN 0
  ELSE 10 * ScanInt(SubSeq(ds, 1, Len(ds) - 1)) + DigitValue(ds[Len(ds)])

\* printf("%d") of a non-negative int
RECURSIVE DecText(_)
DecText(n) ==
  IF n < 10 THEN <<DigitAtoms[n + 1]>> ELSE Append(DecText(n \div 10), DigitAtoms[(n % 10) + 1])

\* floor(log10(abs(millis))) + 1 for millis > 0: its number of digits; for
\* millis = 0 the result is minus infinity, written 0 - 1 here
RECURSIVE DigitCount(_)
DigitCount(n) == IF n < 10 THEN 1 ELSE 1 + DigitCount(n \div 10)

MillisLength(millis) == IF millis = 0 THEN 0 - 1 ELSE DigitCount(millis)

ScaledMillis(millis) ==
  IF MillisLength(millis) = 1 THEN millis * 100
  ELSE IF MillisLength(millis) = 2 THEN millis * 10
  ELSE millis

\* the kinds of value with a fraction: tag, format before and after the
\* fraction
FractionKinds ==
  {[tag |-> "time-local", before |-> <<"%H:%M:%S", ".">>, after |-> <<>>],
   [tag |-> "datetime-local", before |-> <<"%Y-%m-%dT%H:%M:%S", ".">>, after |-> <<>>],
   [tag |-> "datetime", before |-> <<"%Y-%m-%dT%H:%M:%S", ".">>, after |-> <<"Z">>],
   [tag |-> "datetime", before |-> <<"%Y-%m-%dT%H:%M:%S", ".">>,
    after |-> <<"-", "07", ":", "00">>]}

NoDumpValue == [tag |-> "none", text |-> <<>>, float |-> "none", format |-> <<>>]

\* the branches of _mytoml_parser_parse_datetime that read a fraction:
\* the text has the length of the pattern plus the digits of millis, or
\* the value is rejected; the format holds millis printed with %d
FractionValue(kind, digits) ==
  IF Len(digits) # MillisLength(ScanInt(digits)) THEN NoDumpValue
  ELSE [tag |-> kind.tag, text |-> <<>>, float |-> "none",
        format |-> kind.before \o DecText(ScaledMillis(ScanInt(digits))) \o kind.after]

\* strftime on a format: the conversions give the fields of the time, the
\* other characters are copied
TimeText(a) ==
  IF a = "%H:%M:%S" THEN "07:32:00"
  ELSE IF a = "%Y-%m-%dT%H:%M:%S" THEN "1979-05-27T07:32:00"
  ELSE IF a = "%Y-%m-%d" THEN "1979-05-27"
  ELSE a

strftime(format) == [i \in 1..Len(format) |-> TimeText(format[i])]

\* _mytoml_string_dump on a text without characters that need an escape
_mytoml_string_dump(s) == s

TypeAndValue(tag) ==
  <<"{", Q, "type", Q, ": ", Q, tag, Q, ", ", Q, "value", Q, ": ">>

\* toml_value_dump_buffer on a scalar
toml_value_dump_buffer(v) ==
  IF v.tag = "string" THEN TypeAndValue("string") \o _mytoml_string_dump(v.text) \o <<Q, "}">>
  ELSE IF v.tag = "float" THEN
    TypeAndValue("float") \o
      (IF v.float = "inf" THEN <<Q, "}">> \o <<Q, "inf", Q, "}">>
       ELSE IF v.float = "-inf" THEN <<Q, "-inf", Q, "}">>
       ELSE IF v.float = "nan" THEN <<Q, "nan", Q, "}">>
       ELSE IF v.float = "zero" THEN <<Q, "0.0", Q, "}">>
       ELSE <<Q>> \o v.text \o <<Q, "}">>)
  ELSE IF v.tag = "integer" THEN TypeAndValue("integer") \o <<Q>> \o v.text \o <<Q, "}">>
  ELSE IF v.tag = "bool" THEN
    TypeAndValue("bool") \o
      (IF v.text = <<"1">> THEN <<Q, "true", Q, "}">> ELSE <<Q, "false", Q, "}">>)
  ELSE TypeAndValue(v.tag) \o <<Q>> \o strftime(v.format) \o <<Q, "}">>

\* toml_key_dump_buffer on a KeyLeaf that holds a scalar
toml_key_dump_buffer(id, v) ==
  <<Q>> \o _mytoml_string_dump(<<id>>) \o <<Q, ": ">> \o toml_value_dump_buffer(v)

\* the scalars without a fraction: strings, integers, floats, booleans and
\* the date and time kinds
PlainValues ==
  {[tag |-> "string", text |-> s, float |-> "none", format |-> <<>>] :
     s \in {<<>>, <<"h">>, <<"h", "i">>}} \cup
  {[tag |-> "integer", text |-> s, float |-> "none", format |-> <<>>] :
     s \in {<<"1">>, <<"0">>, <<"-", "4", "2">>}} \cup
  {[tag |-> "float", text |-> <<>>, float |-> f, format |-> <<>>] :
     f \in {"inf", "-inf", "nan", "zero"}} \cup
  {[tag |-> "float", text |-> s, float |-> "finite", format |-> <<>>] :
     s \in {<<"1", ".", "5">>, <<"1", "e", "+", "2", "0">>}} \cup
  {[tag |-> "bool", text |-> s, float |-> "none", format |-> <<>>] : s \in {<<"1">>, <<"0">>}} \cup
  {[tag |-> "datetime", text |-> <<>>, float |-> "none",
    format |-> <<"%Y-%m-%dT%H:%M:%S", "Z">>],
   [tag |-> "datetime-local", text |-> <<>>, float |-> "none",
    format |-> <<"%Y-%m-%dT%H:%M:%S">>],
   [tag |-> "date-local", text |-> <<>>, float |-> "none", format |-> <<"%Y-%m-%d">>],
   [tag |-> "time-local", text |-> <<>>, float |-> "none", format |-> <<"%H:%M:%S">>]}

FractionDigits == {"0", "1", "5"}

Fractions == UNION {[1..n -> FractionDigits] : n \in 1..MaxFractionDigits}

LeafIds == {"x", "y"}

InitDump ==
  /\ heap = <<[_mytoml_value_new_key(TOML_TABLE) EXCEPT !.id = "root"]>>
  /\ key = root
  /\ tok = _mytoml_new_tokenizer
  /\ input = NoInput
  /\ released = NoneReleased
  /\ scan = NoScan
  /\ ctok = NoTokenizer
  /\ pc = "dump"
  /\ nstmts = 0
  /\ last = NoLast
  /\ hdrs = {}
  /\ onlyhdr = TRUE
  /\ locked = {}
  /\ cur = root
  /\ lpath = <<>>
  /\ \E id \in LeafIds :
       \/ \E kind \in FractionKinds, digits \in Fractions :
            unit = [op |-> "dump", at |-> "text", id |-> id, kind |-> kind, digits |-> digits,
                    value |-> NoDumpValue, out |-> <<>>]
       \/ \E v \in PlainValues :
            unit = [op |-> "dump", at |-> "parsed", id |-> id,
                    kind |-> [tag |-> v.tag, before |-> <<>>, after |-> <<>>], digits |-> <<>>,
                    value |-> v, out |-> <<>>]

\* parse_datetime accepts the text with its fraction
FractionAccept ==
  /\ pc = "dump" /\ unit.at = "text"
  /\ FractionValue(unit.kind, unit.digits) # NoDumpValue
  /\ unit' = [unit EXCEPT !.at = "parsed", !.value = FractionValue(unit.kind, unit.digits)]
  /\ UNCHANGED restVars

\* parse_datetime rejects it
FractionReject ==
  /\ pc = "dump" /\ unit.at = "text"
  /\ FractionValue(unit.kind, unit.digits) = NoDumpValue
  /\ unit' = [unit EXCEPT !.at = "rejected"]
  /\ UNCHANGED restVars

\* the leaf is dumped
DumpLeaf ==
  /\ pc = "dump" /\ unit.at = "parsed"
  /\ unit' = [unit EXCEPT !.at = "dumped", !.out = toml_key_dump_buffer(unit.id, unit.value)]
  /\ UNCHANGED restVars

NextDump ==
  \/ FractionAccept
  \/ FractionReject
  \/ DumpLeaf

SpecDump == InitDump /\ [][NextDump]_vars

----------------------------------------------------------------------------
(* The number branch of a value over a loaded buffer, in both input forms. *)
(* unit.stream is the buffer as allocated: the text followed by the        *)
(* sentinel in a file, by the terminating byte 0 in a string; buffer index *)
(* i is unit.stream[i + 1].  unit.cursor, token, prev and is_null are the  *)
(* tokenizer's fields, unit.adv the sum of the results of the look-ahead   *)
(* calls, unit.value the bytes stored by the number loop, unit.high the    *)
(* greatest buffer index read so far.  A read outside the allocation       *)
(* yields whatever byte lies there.                                        *)

\* the bytes of a value after its first digit number at most MaxValueBytes
MaxValueBytes == 3

\* MYTOML_MAX_STRING_LENGTH, scaled
NumberCap == 6

LetterSmallA == 97
EqualsSign == 61
Colon == 58
Dash == 45

\* the number ends handed to parse_value by parse_key_value: "# \n"
StatementNumBytes == {Hash, Space, LineFeed}

\* the buffer of _mytoml_tokenizer_load_input and the copy of toml_loads
Buffer(form, text) == Append(text, IF form = "file" THEN EOFByte ELSE 0)

\* what a read outside the allocation may yield
Beyond == {0, DigitOne, LineFeed, EOFByte}

Outside(u) == u.cursor >= Len(u.stream)

BeyondOf(u) == IF (u.is_null \/ u.cursor = 0) /\ Outside(u) THEN Beyond ELSE {0}

\* _mytoml_tokenizer_next_token; b is the byte found outside the
\* allocation, ret the value returned
BufferNext(u, b) ==
  IF u.is_null \/ u.cursor = 0 THEN
    LET Read(byte) ==
          [u EXCEPT !.prev_prev = u.prev, !.prev = u.token,
                    !.token = IF byte = EOFByte THEN 0 ELSE byte,
                    !.is_null = IF byte = EOFByte THEN FALSE ELSE u.is_null,
                    !.high = IF u.cursor > u.high THEN u.cursor ELSE u.high,
                    !.cursor = u.cursor + 1, !.ret = 1]
    IN Read(IF Outside(u) THEN b ELSE u.stream[u.cursor + 1])
  ELSE [u EXCEPT !.prev_prev = u.prev, !.prev = u.token, !.ret = 0]

\* _mytoml_tokenizer_backtrace, without the line and column
BufferBacktrace(u, count) ==
  IF count > 0 /\ u.cursor > count + 2
    THEN BufferNext(BufferNext([u EXCEPT !.cursor = u.cursor - (count + 2), !.is_null = TRUE], 0), 0)
  ELSE u

_mytoml_is_number_start(c) == c = 43 \/ c = Dash \/ _mytoml_is_digit(c)

\* the conversion after the number loop or on a number end
NumberConvert(u) ==
  [u EXCEPT !.at = IF ConvertsWhole(u.value) THEN "accepted" ELSE "rejected"]

\* one pass of the loop of _mytoml_parser_parse_number over digits other
\* than 0 and bytes that no branch of the loop singles out
NumberPass(u, b) ==
  IF ~u.is_null THEN NumberConvert(u)
  ELSE IF ~(Len(u.value) < NumberCap) THEN [u EXCEPT !.at = "rejected"]
  ELSE IF _mytoml_is_number_end(u.token, StatementNumBytes) THEN NumberConvert(u)
  ELSE BufferNext([u EXCEPT !.value = Append(u.value, u.token)], b)

\* the test after the look-ahead calls a and b
TestTwo(u) ==
  IF u.is_null /\ u.token = Colon THEN [BufferBacktrace(u, u.adv) EXCEPT !.at = "datetime"]
  ELSE IF ~_mytoml_is_digit(u.prev) \/ ~_mytoml_is_digit(u.token)
    THEN [BufferBacktrace(u, u.adv) EXCEPT !.at = "scan"]
  ELSE [u EXCEPT !.at = "c"]

\* the test after the look-ahead calls c and d
TestFour(u) ==
  IF u.is_null /\ u.token = Dash THEN [BufferBacktrace(u, u.adv) EXCEPT !.at = "datetime"]
  ELSE [BufferBacktrace(u, u.adv) EXCEPT !.at = "scan"]

AfterCall(at) ==
  IF at = "a" THEN "b" ELSE IF at = "b" THEN "two" ELSE IF at = "c" THEN "d" ELSE "four"

ValueBytes == {DigitOne, Colon, Dash, Space, LineFeed}

RECURSIVE ValueTails(_)
ValueTails(n) ==
  IF n = 0 THEN {<<>>}
  ELSE ValueTails(n - 1) \cup {Append(t, c) : t \in {s \in ValueTails(n - 1) : Len(s) = n - 1}, c \in ValueBytes}

\* the tokenizer on the first byte of the value of `a=<value>`
NewNumber(form, tail) ==
  [op |-> "number", form |-> form,
   stream |-> Buffer(form, <<LetterSmallA, EqualsSign, DigitOne>> \o tail),
   cursor |-> 3, token |-> DigitOne, prev |-> EqualsSign, prev_prev |-> LetterSmallA,
   is_null |-> TRUE, high |-> 2, ret |-> 1, adv |-> 0, value |-> <<>>, at |-> "a"]

InitNum ==
  /\ heap = <<[_mytoml_value_new_key(TOML_TABLE) EXCEPT !.id = "root"]>>
  /\ key = root
  /\ tok = _mytoml_new_tokenizer
  /\ input = NoInput
  /\ released = NoneReleased
  /\ scan = NoScan
  /\ ctok = NoTokenizer
  /\ pc = "number"
  /\ nstmts = 0
  /\ last = NoLast
  /\ hdrs = {}
  /\ onlyhdr = TRUE
  /\ locked = {}
  /\ cur = root
  /\ lpath = <<>>
  /\ \E form \in InputForms : \E tail \in ValueTails(MaxValueBytes) :
       /\ _mytoml_is_number_start(DigitOne)
       /\ unit = NewNumber(form, tail)

\* one of the look-ahead calls a, b, c, d
LookAhead ==
  /\ pc = "number" /\ unit.at \in {"a", "b", "c", "d"}
  /\ \E b \in BeyondOf(unit) :
       LET K(r) == [r EXCEPT !.adv = unit.adv + r.ret, !.at = AfterCall(unit.at)]
       IN unit' = K(BufferNext(unit, b))
  /\ UNCHANGED restVars

LookAheadTwo ==
  /\ pc = "number" /\ unit.at = "two"
  /\ unit' = TestTwo(unit)
  /\ UNCHANGED restVars

LookAheadFour ==
  /\ pc = "number" /\ unit.at = "four"
  /\ unit' = TestFour(unit)
  /\ UNCHANGED restVars

NumberLoop ==
  /\ pc = "number" /\ unit.at = "scan"
  /\ \E b \in BeyondOf(unit) : unit' = NumberPass(unit, b)
  /\ UNCHANGED restVars

NextNum == LookAhead \/ LookAheadTwo \/ LookAheadFour \/ NumberLoop

SpecNum == InitNum /\ [][NextNum]_vars

----------------------------------------------------------------------------
(* Properties *)

LogIdx == 1..Len(last.log)
LockedNodes == {r.node : r \in locked}

\* C1: every [[path]] header whose segments the redefinition rules accept
\* (the first one for its path included) is accepted, appends one fresh
\* row to the node's array and leaves idx at the index of that row.
C1_ArrayTableHeaderAppends ==
  (last.stmt.kind = "atable" /\ \A i \in LogIdx : last.log[i].ret # NULL) =>
    /\ last.ok
    /\ pc # "failed"
    /\ heap[last.ret].type = TOML_ARRAYTABLE
    /\ heap[last.ret].value.type = "ARRAY"
    /\ heap[last.ret].idx + 1 = Len(heap[last.ret].value.arr)
    /\ heap[last.ret].value.arr[heap[last.ret].idx + 1].type = "INLINETABLE"

\* C2: an add that finds an existing subkey of kind KeyLeaf returns absent,
\* whatever the kind of the new subkey, and the parse fails.
C2_KeyLeafRejectsEveryKind ==
  \A i \in LogIdx :
    last.log[i].ekind = TOML_KEYLEAF =>
      /\ last.log[i].ret = NULL
      /\ ~last.ok
      /\ pc = "failed"

C2_Witness ==
  /\ pc = "failed"
  /\ last.stmt = ArrayTableStmt(<<"a">>)
  /\ \E i \in LogIdx : last.log[i].ekind = TOML_KEYLEAF /\ last.log[i].ret = NULL

\* C3 as stated: an add that finds an existing subkey of kind Key is
\* accepted for every kind of the new subkey and returns the existing node.
C3_KeyAcceptsEveryKind ==
  \A i \in LogIdx :
    last.log[i].ekind = TOML_KEY =>
      last.log[i].ret # NULL /\ last.log[i].ret = last.log[i].existing

\* C3 amended: an add that finds an existing subkey of kind Key returns the
\* existing node, without inserting the new one and without changing the
\* kind, when the new subkey is a Key or a Table; it returns absent and the
\* parse fails when the new subkey is a KeyLeaf, a TableLeaf or an ArrayTable.
C3_KeyMergesKeyAndTable ==
  \A i \in LogIdx :
    last.log[i].ekind = TOML_KEY =>
      IF last.log[i].ckind \in {TOML_KEY, TOML_TABLE}
      THEN /\ last.log[i].ret = last.log[i].existing
           /\ last.log[i].slot = last.log[i].existing
           /\ last.log[i].rkind = TOML_KEY
      ELSE last.log[i].ret = NULL /\ ~last.ok /\ pc = "failed"

C3_Witness ==
  /\ last.stmt.kind = "table"
  /\ \E i \in LogIdx :
       /\ last.log[i].ekind = TOML_KEY /\ last.log[i].ckind = TOML_TABLE
       /\ last.log[i].ret = last.log[i].existing
       /\ heap[last.log[i].ret].type = TOML_KEY

\* C4 as stated: an add that finds an existing subkey of kind Table is
\* accepted for every kind of the new subkey and returns the existing node,
\* whose kind changes (to TableLeaf) only when the new subkey is a TableLeaf.
C4_TableAcceptsEveryKind ==
  \A i \in LogIdx :
    last.log[i].ekind = TOML_TABLE =>
      /\ last.log[i].ret = last.log[i].existing
      /\ last.log[i].rkind =
           IF last.log[i].ckind = TOML_TABLELEAF THEN TOML_TABLELEAF ELSE TOML_TABLE

\* C4 amended: an add that finds an existing subkey of kind Table returns
\* the existing node with its kind unchanged when the new subkey is a Table,
\* returns the existing node and changes its kind to TableLeaf when the new
\* subkey is a TableLeaf, and returns absent (the parse fails) when the new
\* subkey is a Key, a KeyLeaf or an ArrayTable.
C4_TableMergesTableAndTableLeaf ==
  \A i \in LogIdx :
    last.log[i].ekind = TOML_TABLE =>
      IF last.log[i].ckind = TOML_TABLE
      THEN /\ last.log[i].ret = last.log[i].existing
           /\ last.log[i].slot = last.log[i].existing
           /\ last.log[i].rkind = TOML_TABLE
      ELSE IF last.log[i].ckind = TOML_TABLELEAF
      THEN /\ last.log[i].ret = last.log[i].existing
           /\ last.log[i].slot = last.log[i].existing
           /\ last.log[i].rkind = TOML_TABLELEAF
      ELSE last.log[i].ret = NULL /\ ~last.ok /\ pc = "failed"

C4_Witness ==
  /\ last.ok
  /\ last.stmt = TableStmt(<<"a">>)
  /\ Len(last.log) = 1
  /\ last.log[1].ekind = TOML_TABLE /\ last.log[1].ckind = TOML_TABLELEAF
  /\ last.log[1].ret = last.log[1].existing
  /\ heap[last.ret].type = TOML_TABLELEAF

\* C5 as stated: an add that finds an existing subkey of kind TableLeaf
\* returns the existing node, whose kind stays TableLeaf, when the new
\* subkey is a Key, a KeyLeaf, a Table or an ArrayTable, and is rejected
\* when the new subkey is a TableLeaf.
C5_TableLeafRejectsOnlyTableLeaf ==
  \A i \in LogIdx :
    last.log[i].ekind = TOML_TABLELEAF =>
      IF last.log[i].ckind = TOML_TABLELEAF
      THEN last.log[i].ret = NULL
      ELSE last.log[i].ret = last.log[i].existing /\ last.log[i].rkind = TOML_TABLELEAF

\* C5 amended: an add that finds an existing subkey of kind TableLeaf
\* returns the existing node, whose kind stays TableLeaf, when the new
\* subkey is a Table; it returns absent (the parse fails) when the new
\* subkey is a Key, a KeyLeaf, a TableLeaf or an ArrayTable.
C5_TableLeafMergesOnlyTable ==
  \A i \in LogIdx :
    last.log[i].ekind = TOML_TABLELEAF =>
      IF last.log[i].ckind = TOML_TABLE
      THEN /\ last.log[i].ret = last.log[i].existing
           /\ last.log[i].slot = last.log[i].existing
           /\ last.log[i].rkind = TOML_TABLELEAF
      ELSE last.log[i].ret = NULL /\ ~last.ok /\ pc = "failed"

C5_Witness ==
  /\ pc = "failed"
  /\ last.stmt = TableStmt(<<"a">>)
  /\ last.seen
  /\ last.log[1].ekind = TOML_TABLELEAF /\ last.log[1].ckind = TOML_TABLELEAF
  /\ last.log[1].ret = NULL

C7_TableHeaderAtMostOnce ==
  (onlyhdr /\ last.stmt.kind = "table") =>
    /\ last.ok <=> ~last.seen
    /\ last.ok => /\ heap[last.ret].type = TOML_TABLELEAF
                  /\ last.ret = Walk(heap, root, last.stmt.path)
                  /\ last.stmt.path \in hdrs

C7_Witness ==
  /\ onlyhdr /\ nstmts = 3 /\ pc = "failed"
  /\ last.stmt = TableStmt(<<"a">>)
  /\ hdrs = {<<"a", "b">>, <<"a">>}
  /\ heap[Walk(heap, root, <<"a">>)].type = TOML_TABLELEAF

\* C8: a node whose value was parsed as an inline table is a KeyLeaf with
\* exactly the inline table's entries as subkeys once its statement is
\* parsed, it stays so, and every later add that finds it returns absent
\* and fails the parse.
C8_InlineTableIsLocked ==
  /\ \A r \in locked :
       /\ heap[r.node].type = TOML_KEYLEAF
       /\ DOMAIN heap[r.node].subkeys = r.ids
  /\ (last.ok /\ last.stmt.kind = "kv" /\ last.stmt.val.t = "inline") =>
       Walk(heap, last.before, last.stmt.path) \in LockedNodes
  /\ \A i \in LogIdx :
       last.log[i].existing \in LockedNodes =>
         last.log[i].ret = NULL /\ ~last.ok /\ pc = "failed"

C8_Witness ==
  /\ pc = "failed"
  /\ last.stmt = KeyValueStmt(<<"a", "b">>, IntV(2))
  /\ Len(last.log) = 1
  /\ \E r \in locked : r.ids = {"a", "b"} /\ last.log[1].existing = r.node
  /\ \E r \in locked :
       /\ r.node = Walk(heap, root, <<"a">>)
       /\ heap[heap[r.node].subkeys["a"]].value = _mytoml_value_new_number(1, "INT")
       /\ heap[heap[r.node].subkeys["b"]].value = _mytoml_value_new_number(2, "INT")

\* C9: an accepted iteration over a comment, whitespace or a newline leaves
\* the current table and the tree unchanged; an accepted key-value pair is
\* attached below the current table and leaves it current; an accepted
\* header is resolved from root and makes its terminal node current.
C9_CurrentTable ==
  [][(pc = "parsing" /\ pc' = "parsing") =>
       /\ tok.token \in {"hash", "ws", "nl"} => (key' = key /\ heap' = heap)
       /\ tok.token = "key" =>
            /\ key' = key
            /\ last'.log[1].parent = key
            /\ Walk(heap', key, last'.stmt.path) # NULL
            /\ Walk(heap', key, last'.stmt.path) > Len(heap)
            /\ key # root => heap'[root] = heap[root]
       /\ tok.token = "lb" =>
            /\ last'.log[1].parent = root
            /\ key' = Walk(heap', root, last'.stmt.path)
            /\ key' # root]_vars

C9_Witness ==
  /\ last.ok
  /\ last.stmt = KeyValueStmt(<<"b">>, StrV("v"))
  /\ nstmts = 2
  /\ DOMAIN heap[root].subkeys = {"a"}
  /\ heap[Walk(heap, root, <<"a">>)].type = TOML_TABLE
  /\ heap[Walk(heap, root, <<"a", "b">>)].type = TOML_TABLELEAF
  /\ key = Walk(heap, root, <<"a", "b">>)
  /\ heap[Walk(heap, root, <<"a", "b", "b">>)].type = TOML_KEYLEAF
  /\ heap[Walk(heap, root, <<"a", "b", "b">>)].value = _mytoml_value_new_string("v")

\* C10: a chain of lookups from root along identifiers p returns the node
\* stored under p in the subkey maps, absent when there is none.
C10_LookupReturnsChild ==
  pc = "done" => cur = Walk(heap, root, lpath)

----------------------------------------------------------------------------
(* Failure of a load, release of the tree, end of input *)

\* the key nodes a value points to: the node of an inline table and those
\* of the elements of an array
RECURSIVE ValueKeys(_)
ValueKeys(v) ==
  (IF v.type = "INLINETABLE" THEN {v.data} ELSE {})
    \cup UNION {ValueKeys(v.arr[i]) : i \in 1..Len(v.arr)}

\* the key nodes reachable from the nodes of S in at most n steps through
\* subkey maps and values
RECURSIVE Reach(_, _, _)
Reach(h, S, n) ==
  IF n = 0 THEN S
  ELSE Reach(h, S \cup UNION {{h[k].subkeys[id] : id \in DOMAIN h[k].subkeys}
                                \cup ValueKeys(h[k].value) : k \in S}, n - 1)

Tree(h) == Reach(h, {root}, Len(h))

\* C11 as stated: when a statement fails the load returns absent, no later
\* statement is processed, and the tokenizer and every node of the tree
\* built so far are released.
C11_FailedLoadReleasesTree ==
  pc = "failed" =>
    /\ key = NULL
    /\ ~ENABLED Next
    /\ released.tok
    /\ Tree(heap) \subseteq released.keys

\* C12 as stated: the load of an empty document, from a file of size 0 or
\* from a string of length 0, succeeds and returns the table "root" with no
\* subkeys.
C12_EmptyDocumentLoads ==
  (input.empty /\ pc # "parsing") =>
    /\ pc \in {"done", "freed"}
    /\ heap = <<[_mytoml_value_new_key(TOML_TABLE) EXCEPT !.id = "root"]>>
    /\ key = root

\* C15 as stated: a comment that runs to the end of the input without a
\* control byte is consumed and the statement succeeds.
C15_CommentEndsAtEndOfInput ==
  (last.at = "hash" /\ tok.token = "nul" /\ tok.prev \in {"hash", "other"}
     /\ input.form = "file") =>
    /\ last.ok
    /\ pc # "failed"

\* C17 as stated: a key-value pair with a scalar value that ends at the end
\* of the input, its key accepted, succeeds and attaches the value, for
\* every kind of scalar.
C17_LastKeyValueEndsAtEndOfInput ==
  (/\ last.stmt.kind = "kv"
   /\ last.stmt.val.t \in {"int", "hex", "date", "bool", "str"}
   /\ input.form = "file" /\ ~_mytoml_tokenizer_has_token(tok) /\ tok.prev = "other"
   /\ \A i \in LogIdx : last.log[i].ret # NULL) =>
    /\ last.ok
    /\ heap[Walk(heap, last.before, last.stmt.path)].value
         = (CASE last.stmt.val.t \in {"int", "hex"} -> _mytoml_value_new_number(last.stmt.val.v, "INT")
              [] last.stmt.val.t = "date" -> _mytoml_value_new_datetime(last.stmt.val.v)
              [] last.stmt.val.t = "bool" -> _mytoml_value_new_number(last.stmt.val.v, "BOOL")
              [] OTHER -> _mytoml_value_new_string(last.stmt.val.s))

\* C13 as stated: a key segment of exactly MYTOML_MAX_ID_LENGTH bytes is
\* accepted, whichever of the three scanners reads it.
C13_SegmentAtCapAccepted ==
  (scan.loop \in KeyLoops /\ scan.byte = "end" /\ scan.idx = MYTOML_MAX_ID_LENGTH) =>
    scan.outcome = "accepted"

\* C14 as stated: a string of exactly MYTOML_MAX_STRING_LENGTH bytes and an
\* array of exactly MYTOML_MAX_ARRAY_LENGTH elements are accepted.
C14_ValueAtCapAccepted ==
  /\ (scan.loop \in StringLoops /\ scan.byte = "end" /\ scan.idx = MYTOML_MAX_STRING_LENGTH) =>
       scan.outcome = "accepted"
  /\ (scan.loop = "array" /\ scan.byte = "end" /\ scan.idx = MYTOML_MAX_ARRAY_LENGTH) =>
       scan.outcome = "accepted"

\* C19 as stated: in a multi-line string at most one newline, the one right
\* after the opening delimiter, is dropped; every further newline is stored.
C19_OneNewlineTrimmed ==
  (scan.loop \in StringLoops /\ scan.multi) => scan.skipped <= 1

ByteAt(i) == IF ctok.stream[i] = "eof" THEN "nul" ELSE ctok.stream[i]

\* count advances were made after the last permitted backtrace(count)
Returned == ctok.op = "advance" /\ ctok.count > 0 /\ ctok.since = ctok.count

\* at the call, prev and prev_prev held the two bytes before the token
InStep ==
  /\ ctok.mark.prev = ByteAt(ctok.mark.cursor - 1)
  /\ ctok.mark.prev_prev = ByteAt(ctok.mark.cursor - 2)

\* the walk back stays on the line of the call (the column is at least
\* count + 2) and none of the count + 2 bytes read again is a newline
SameLine ==
  /\ ctok.mark.col >= ctok.count + 2
  /\ \A i \in (ctok.mark.cursor - ctok.count - 1)..ctok.mark.cursor : ctok.stream[i] # "nl"

C20_HasTokenFalseOnce ==
  [][~_mytoml_tokenizer_has_token(ctok) => ~_mytoml_tokenizer_has_token(ctok')]_vars

\* C20, amended: the has-token flag is true exactly while the cursor is
\* before the end of the buffer, so it is true from the first advance until
\* the sentinel is read; an advance never makes it true again, a permitted
\* backtrace does, and re-reading the sentinel makes it false again.
C20_HasTokenUntilSentinel ==
  /\ [](_mytoml_tokenizer_has_token(ctok) <=> ctok.cursor < Len(ctok.stream))
  /\ [][(~_mytoml_tokenizer_has_token(ctok) /\ _mytoml_tokenizer_has_token(ctok'))
          => ctok'.op = "backtrace"]_vars

C20_Witness ==
  /\ ctok.op = "advance"
  /\ ~_mytoml_tokenizer_has_token(ctok)
  /\ ctok.backs = 1 /\ ~ctok.mark.is_null
  /\ ctok.since = ctok.count

\* C18 as stated: after a load, a free of root releases every key node
\* reachable from root.
C18_FreeReleasesTree ==
  pc = "freed" => Tree(heap) \subseteq released.keys

\* the tokenizer after k advances from construction over the same buffer
RECURSIVE FirstPass(_, _)
FirstPass(t, k) == IF k = 0 THEN t ELSE FirstPass(NextToken(t), k - 1)

FirstAt(k) == FirstPass(NewTokenizer(SubSeq(ctok.stream, 1, Len(ctok.stream) - 1)), k)

\* the state right after the first permitted backtrace(count) of a tokenizer
AfterBacktrace == ctok.op = "backtrace" /\ ctok.backs = 1

\* C21: immediately after backtrace(n) from cursor c > n+2 the cursor is
\* c-n, token, prev and prev_prev are the buffer bytes at c-n-1, c-n-2 and
\* c-n-3, line and column are those of the first pass at cursor c-n, and the
\* stored line lengths are the ones held before the call.
C21_BacktraceRefillsFromBuffer ==
  AfterBacktrace =>
    /\ ctok.cursor = ctok.mark.cursor - ctok.count
    /\ ctok.token = ByteAt(ctok.cursor)
    /\ ctok.prev = ByteAt(ctok.cursor - 1)
    /\ ctok.prev_prev = ByteAt(ctok.cursor - 2)
    /\ ctok.line = FirstAt(ctok.cursor).line
    /\ ctok.col = FirstAt(ctok.cursor).col
    /\ ctok.lines = FirstAt(ctok.mark.cursor).lines

\* a scalar value of Unicode and its standard UTF-8 encoding
IsScalar(v) == (v >= 0 /\ v <= 55295) \/ (v >= 57344 /\ v <= 1114111)

StandardUtf8(v) ==
  IF v <= 127 THEN <<v>>
  ELSE IF v <= 2047 THEN <<192 + (v \div 64), 128 + (v % 64)>>
  ELSE IF v <= 65535
    THEN <<224 + (v \div 4096), 128 + ((v \div 64) % 64), 128 + (v % 64)>>
  ELSE <<240 + (v \div 262144), 128 + ((v \div 4096) % 64), 128 + ((v \div 64) % 64),
         128 + (v % 64)>>

\* the longest run of hexadecimal digits at the head of a text
RECURSIVE HexRun(_)
HexRun(s) ==
  IF s = <<>> THEN <<>>
  ELSE IF _mytoml_is_hex_digit(s[1]) \/ _mytoml_is_digit(s[1])
    THEN <<s[1]>> \o HexRun(SubSeq(s, 2, Len(s)))
  ELSE <<>>

\* a closed string that began with a unicode escape has been scanned to its
\* end or to a failure
UnicodeScanned ==
  /\ pc = "escape" /\ unit.closed
  /\ unit.stream[2] \in {LetterSmallU, LetterBigU}
  /\ unit.at \in {"accepted", "rejected"}

\* the hexadecimal digits that follow the escape letter are exactly 4 or 8
ExactDigits == Len(HexRun(unit.text \o unit.follow)) \in {4, 8}

\* C22: a unicode escape whose 4 or 8 digits name a scalar value is decoded
\* to the standard UTF-8 bytes of that value (1 byte up to 0x7F, 2 up to
\* 0x7FF, 3 up to 0xFFFF, 4 up to 0x10FFFF); a surrogate or a value above
\* 0x10FFFF is rejected.
C22_UnicodeEscapeDecodedToUtf8 ==
  (UnicodeScanned /\ ExactDigits) =>
    IF IsScalar(strtoul(HexRun(unit.text \o unit.follow)))
    THEN /\ unit.at = "accepted"
         /\ unit.out = StandardUtf8(strtoul(HexRun(unit.text \o unit.follow))) \o
                       SubSeq(unit.text \o unit.follow,
                              Len(HexRun(unit.text \o unit.follow)) + 1,
                              Len(unit.text \o unit.follow))
    ELSE unit.at = "rejected"

\* the number of digits the escape letter asks for
DigitsOf(letter) == IF letter = LetterSmallU THEN 4 ELSE 8

\* C23: \u takes exactly the 4 hexadecimal digits that follow it and \U
\* exactly 8; the bytes after them, hexadecimal digits included, are
\* ordinary content of the string; fewer than 4 or 8 digits are rejected.
C23_EscapeTakesExactDigits ==
  UnicodeScanned =>
    IF Len(HexRun(unit.text \o unit.follow)) < DigitsOf(unit.stream[2])
    THEN unit.at = "rejected"
    ELSE IF UnicodeBytes(strtoul(SubSeq(unit.text \o unit.follow, 1, DigitsOf(unit.stream[2])))) = <<>>
    THEN unit.at = "rejected"
    ELSE /\ unit.at = "accepted"
         /\ unit.out = UnicodeBytes(strtoul(SubSeq(unit.text \o unit.follow, 1,
                                                   DigitsOf(unit.stream[2])))) \o
                       SubSeq(unit.text \o unit.follow, DigitsOf(unit.stream[2]) + 1,
                              Len(unit.text \o unit.follow))

\* the bytes of an array body before its closing bracket; the whole text
\* when there is none
RECURSIVE BeforeEnd(_)
BeforeEnd(s) ==
  IF s = <<>> \/ s[1] = ArrayEnd THEN <<>> ELSE <<s[1]>> \o BeforeEnd(SubSeq(s, 2, Len(s)))

HasEnd(s) == \E i \in 1..Len(s) : s[i] = ArrayEnd

\* the numbers written in a text of digits and commas, in order
RECURSIVE NumbersOf(_, _)
NumbersOf(s, digits) ==
  IF s = <<>> THEN (IF digits = <<>> THEN <<>> ELSE <<strtod(digits)>>)
  ELSE IF s[1] = Comma
    THEN (IF digits = <<>> THEN <<>> ELSE <<strtod(digits)>>) \o NumbersOf(Tail(s), <<>>)
  ELSE NumbersOf(Tail(s), Append(digits, s[1]))

\* values separated by exactly one comma, with at most one trailing comma
OneCommaBetween(s) ==
  /\ s # <<>> => s[1] # Comma
  /\ \A i \in 1..(Len(s) - 1) : ~(s[i] = Comma /\ s[i + 1] = Comma)

\* the array loop has returned
ArrayParsed == pc = "array" /\ unit.at \in {"accepted", "rejected"}

\* what was put into the body splits a number in two
SplitsNumber ==
  /\ unit.filler # <<>>
  /\ unit.p < Len(BeforeEnd(unit.base))
  /\ InsideNumber(unit.base, unit.p)

\* C24: an array is accepted exactly when its values are separated by one
\* comma each (no comma before the first value, no two commas in a row, no
\* two values without a comma; one trailing comma is allowed), and its
\* elements are the values in order; whitespace, a newline or a comment
\* between two tokens changes neither.
C24_ArraySeparatedByCommas ==
  ArrayParsed =>
    /\ unit.at = "accepted" <=>
         (HasEnd(unit.base) /\ OneCommaBetween(BeforeEnd(unit.base)) /\ ~SplitsNumber)
    /\ unit.at = "accepted" => unit.elems = NumbersOf(BeforeEnd(unit.base), <<>>)

\* a run of digits without its trailing zeros
RECURSIVE TrimZeros(_)
TrimZeros(ds) ==
  IF ds # <<>> /\ ds[Len(ds)] = "0" THEN TrimZeros(SubSeq(ds, 1, Len(ds) - 1)) ELSE ds

\* the digits of the fraction in a dumped text
EmittedFraction == SelectSeq(unit.out, IsDigitAtom)

\* a value written with a fraction has been rejected or parsed and dumped
FractionSettled == pc = "dump" /\ unit.digits # <<>> /\ unit.at \in {"rejected", "dumped"}

\* C25: a local time, local datetime or offset datetime with a fraction of
\* 1 to 9 digits is accepted whatever the digits are (leading zeros and all
\* zeros included), and the fraction is emitted with at least three digits
\* and the same numeric value.
C25_FractionAcceptedAndKept ==
  FractionSettled =>
    /\ unit.at = "dumped"
    /\ Len(EmittedFraction) >= 3
    /\ TrimZeros(EmittedFraction) = TrimZeros(unit.digits)

\* the text that precedes the literal of a dumped scalar leaf
LeafHead(id, tag) ==
  <<Q, id, Q, ": ", "{", Q, "type", Q, ": ", Q, tag, Q, ", ", Q, "value", Q, ": ">>

\* a scalar leaf has been dumped
LeafDumped == pc = "dump" /\ unit.at = "dumped"

\* C27: a KeyLeaf holding a scalar is dumped as
\* "<id>": {"type": "<tag>", "value": "<literal>"}, the literal between one
\* opening and one closing double quote that a single closing brace follows,
\* for every tag.
C27_ScalarLeafDump ==
  LeafDumped =>
    /\ Len(unit.out) >= Len(LeafHead(unit.id, unit.value.tag)) + 3
    /\ SubSeq(unit.out, 1, Len(LeafHead(unit.id, unit.value.tag))) =
         LeafHead(unit.id, unit.value.tag)
    /\ unit.out[Len(LeafHead(unit.id, unit.value.tag)) + 1] = Q
    /\ unit.out[Len(unit.out) - 1] = Q
    /\ unit.out[Len(unit.out)] = "}"
    /\ \A i \in (Len(LeafHead(unit.id, unit.value.tag)) + 2)..(Len(unit.out) - 2) :
         unit.out[i] \notin {Q, "}"}

\* C26: when value parsing rejects its input, every scratch allocation made
\* for it (the number's value slot and scratch record; the broken-down time
\* and scratch record of a datetime) has been released before the failure
\* is returned.
C26_ScratchReleasedOnRejection ==
  (ArrayParsed /\ unit.at = "rejected") => unit.scratch = {}

\* an empty string has been read by parse_value
EmptyStringRead == pc = "escape" /\ unit.empty /\ unit.at \in {"accepted", "rejected"}

\* C28: the empty basic string "" and the empty literal string '' are
\* accepted as a string of length 0 whatever legal token follows: the end of
\* input, a newline, whitespace, a comment, a comma, or a closing bracket
\* or brace.
C28_EmptyStringAccepted ==
  EmptyStringRead => (unit.at = "accepted" /\ unit.out = <<>>)

\* nothing but spaces and tabs was read since the input began
FirstLineBlank == nstmts = 0 /\ ~tok.newline /\ last.at \in {"nul", "ws"}

\* only spaces and tabs precede the token on its line
BlankBefore ==
  \/ tok.prev \in {"nul", "nl"}
  \/ tok.prev = "ws" /\ (tok.newline \/ FirstLineBlank)

\* C30: a key that starts a logical line (only spaces or tabs before it on
\* its line) is taken as the key of a key-value statement on every line,
\* the first one included: it is never refused as a character out of place.
C30_KeyAtLineStartTaken == [][(tok.token = "key" /\ BlankBefore) => ~Unhandled]_vars

\* the index of the byte that ends the buffer
InputLength == Len(unit.stream) - 1

\* C29: whatever the input form, the tokenizer never reads a buffer byte at
\* an index greater than the length of the input: the greatest index read
\* is at most the index of the byte that ends the buffer.
C29_ReadsStayInsideInput == unit.op = "number" => unit.high <= InputLength

====
